---- MODULE Spec2Model ----
(***************************************************************************)
(* A model of the Schema-Markup-Generator-App: the normalization helpers   *)
(* (src/src/utils/helpers.py), the entity builders                         *)
(* (src/src/generators/base.py), the schema generators                     *)
(* (src/src/generators/*.py), the validators                               *)
(* (src/src/validators/schema_validator.py) and the output step of the     *)
(* Streamlit wizard (src/app.py).                                          *)
(*                                                                         *)
(* Python values are tagged records:                                       *)
(*   None            [t |-> "none"]                                        *)
(*   str             [t |-> "str",  s |-> <<"c", "h", "a", "r", "s">>]     *)
(*   int             [t |-> "int",  n |-> n]                               *)
(*   float           [t |-> "float", m |-> value * 10^FracDigits]          *)
(*   bool            [t |-> "bool", b |-> b]                               *)
(*   list            [t |-> "list", l |-> <<v1, ..., vn>>]                 *)
(*   dict            [t |-> "dict", d |-> [key |-> value]]                 *)
(* A string is the sequence of its characters, so that strip, startswith,  *)
(* rstrip and concatenation are computed character by character.  A dict   *)
(* is a function from its keys: Python's dict equality ignores insertion   *)
(* order, and no modelled code reads that order.                           *)
(***************************************************************************)
EXTENDS Integers, Sequences, FiniteSets, TLC

VARIABLES
    \* --- helpers.normalize_url / helpers.build_id called on one input ---
    url,            \* the argument (a Python value)
    fragment,       \* build_id's fragment (a character sequence)
    normalized,     \* normalize_url(url), or Unset before the call
    identifier,     \* build_id(url, fragment), or Unset before the call
    \* --- helpers.clean_dict called on one input ---
    d,              \* the argument (a Python value)
    cleaned,        \* clean_dict(d), or Unset
    recleaned,      \* clean_dict(clean_dict(d)), or Unset
    \* --- generators, builders and validators called on one facts record ---
    facts,          \* the facts record the caller holds and passes
    snapshot,       \* a copy of facts taken before the first call
    called,         \* the function called last, "none" before the first call
    returned,       \* what it returned (Raised when it raised), or Unset
    calls,          \* the number of calls made
    earlier,        \* what the call before the last returned, or Unset
    \* --- the wizard (src/app.py): st.session_state ---
    step,               \* st.session_state["step"], 0 when no session runs
    business_type,      \* st.session_state["business_type"]
    business_data,      \* st.session_state["business_data"]
    selected_schemas,   \* st.session_state["selected_schemas"]
    session_lists,      \* the row lists of st.session_state: "services",
                        \* "sub_services", "service_categories",
                        \* "faq_questions", "pricing_tiers" and
                        \* "breadcrumb_items", as the fields of a record
    customized,         \* how often "Next: Customize" has been pressed
    \* --- the wizard: what the last script run put on the page ---
    shown,              \* the step whose page that run drew, 0 before any
    schemas,            \* the documents of the output step, by file key
    all_errors,         \* the error lines shown, as <<key, field>> pairs
    all_warnings,       \* the warning lines shown, as <<key, field>> pairs
    failed,             \* the keys whose generator raised (st.error shown)
    zip_offered,        \* the "Download All Schemas as ZIP" button is shown
    json_offered        \* the file keys whose "Download JSON" button is shown

urlVars == <<url, fragment, normalized, identifier>>
cleanVars == <<d, cleaned, recleaned>>
genVars == <<facts, snapshot, called, returned, calls, earlier>>
sessionVars ==
    <<step, business_type, business_data, selected_schemas, session_lists,
      customized>>
pageVars == <<shown, schemas, all_errors, all_warnings, failed, zip_offered, json_offered>>
appVars == <<sessionVars, pageVars>>
vars == <<urlVars, cleanVars, genVars, appVars>>

(***************************************************************************)
(* Python values                                                           *)
(***************************************************************************)
\* The characters of a string literal.
S(str) == [i \in 1..Len(str) |-> SubSeq(str, i, i)]

None == [t |-> "none"]
Str(s) == [t |-> "str", s |-> s]
IntV(n) == [t |-> "int", n |-> n]
Bool(b) == [t |-> "bool", b |-> b]
Lst(l) == [t |-> "list", l |-> l]
Dct(f) == [t |-> "dict", d |-> f]
\* A variable that holds no result yet (no call has been made).
Unset == [t |-> "unset"]

EmptyStr == Str(<<>>)
EmptyList == Lst(<<>>)
EmptyMap == [k \in {} |-> None]
EmptyDict == Dct(EmptyMap)

\* bool(v): Python truthiness.
Truthy(v) ==
    CASE v.t = "none" -> FALSE
      [] v.t = "str" -> Len(v.s) > 0
      [] v.t = "int" -> v.n # 0
      [] v.t = "float" -> v.m # 0
      [] v.t = "bool" -> v.b
      [] v.t = "list" -> Len(v.l) > 0
      [] v.t = "dict" -> DOMAIN v.d # {}
      [] OTHER -> TRUE

(***************************************************************************)
(* str methods                                                             *)
(***************************************************************************)
\* The characters str.strip() removes.
Whitespace == {" ", "\t", "\n"}

RECURSIVE LStrip(_)
LStrip(s) == IF s # <<>> /\ Head(s) \in Whitespace THEN LStrip(Tail(s)) ELSE s

RECURSIVE RStripSet(_, _)
\* s.rstrip(chars)
RStripSet(s, chars) ==
    IF s # <<>> /\ s[Len(s)] \in chars
    THEN RStripSet(SubSeq(s, 1, Len(s) - 1), chars)
    ELSE s

\* s.strip()
Strip(s) == RStripSet(LStrip(s), Whitespace)

\* s.startswith(prefix)
StartsWith(s, prefix) ==
    Len(s) >= Len(prefix) /\ SubSeq(s, 1, Len(prefix)) = prefix

\* s.endswith(suffix)
EndsWith(s, suffix) ==
    Len(s) >= Len(suffix) /\ SubSeq(s, Len(s) - Len(suffix) + 1, Len(s)) = suffix

\* sub in s
Contains(s, sub) ==
    \E i \in 1..(Len(s) - Len(sub) + 1) : SubSeq(s, i, i + Len(sub) - 1) = sub

(***************************************************************************)
(* helpers.py                                                              *)
(***************************************************************************)
\* normalize_url with a one-slash rstrip: url[:-1] if url.endswith("/").
normalize_url_one_slash(u) ==
    IF ~Truthy(u) THEN EmptyStr
    ELSE LET stripped == Strip(u.s)
             schemed == IF ~StartsWith(stripped, S("http"))
                        THEN S("https://") \o stripped
                        ELSE stripped
         IN  Str(IF EndsWith(schemed, S("/"))
                 THEN SubSeq(schemed, 1, Len(schemed) - 1)
                 ELSE schemed)

\* def normalize_url(url)
normalize_url(u) ==
    IF ~Truthy(u) THEN EmptyStr
    ELSE LET stripped == Strip(u.s)
             schemed == IF ~StartsWith(stripped, S("http"))
                        THEN S("https://") \o stripped
                        ELSE stripped
         IN  Str(RStripSet(schemed, {"/"}))

\* def build_id(base_url, fragment): f"{base}/#{fragment}"
build_id(base_url, frag) ==
    Str(normalize_url(base_url).s \o S("/#") \o frag)

\* The values "item not in (None, "", {}, [])" compares an item with.
EmptyValues == {None, EmptyStr, EmptyDict, EmptyList}

RECURSIVE clean_dict_raw_test(_)
RECURSIVE clean_dict(_)

\* clean_dict that decides whether to keep a list by the list as given
\* ("if v:") instead of by the cleaned list ("if cleaned_list:").
clean_dict_raw_test(v) ==
    IF v.t # "dict" THEN v
    ELSE LET f == v.d
             CleanItem(item) ==
                 IF item.t = "dict" THEN clean_dict_raw_test(item) ELSE item
             CleanList(l) ==
                 SelectSeq([i \in DOMAIN l |-> CleanItem(l[i])],
                           LAMBDA item : item \notin EmptyValues)
             Keep(k) ==
                 CASE f[k].t = "none" -> FALSE
                   [] f[k].t = "str" -> Strip(f[k].s) # <<>>
                   [] f[k].t = "list" -> f[k].l # <<>>
                   [] f[k].t = "dict" -> DOMAIN clean_dict_raw_test(f[k]).d # {}
                   [] OTHER -> TRUE
             Val(k) ==
                 CASE f[k].t = "list" -> Lst(CleanList(f[k].l))
                   [] f[k].t = "dict" -> clean_dict_raw_test(f[k])
                   [] OTHER -> f[k]
         IN  Dct([k \in {j \in DOMAIN f : Keep(j)} |-> Val(k)])

\* def clean_dict(d)
clean_dict(v) ==
    IF v.t # "dict" THEN v
    ELSE LET f == v.d
             \* clean_dict(item) if isinstance(item, dict) else item
             CleanItem(item) ==
                 IF item.t = "dict" THEN clean_dict(item) ELSE item
             \* the two list comprehensions of lines 70-71
             CleanList(l) ==
                 SelectSeq([i \in DOMAIN l |-> CleanItem(l[i])],
                           LAMBDA item : item \notin EmptyValues)
             Keep(k) ==
                 CASE f[k].t = "none" -> FALSE
                   [] f[k].t = "str" -> Strip(f[k].s) # <<>>
                   [] f[k].t = "list" -> CleanList(f[k].l) # <<>>
                   [] f[k].t = "dict" -> DOMAIN clean_dict(f[k]).d # {}
                   [] OTHER -> TRUE
             Val(k) ==
                 CASE f[k].t = "list" -> Lst(CleanList(f[k].l))
                   [] f[k].t = "dict" -> clean_dict(f[k])
                   [] OTHER -> f[k]
         IN  Dct([k \in {j \in DOMAIN f : Keep(j)} |-> Val(k)])

(***************************************************************************)
(* dict and str operations used by the builders and generators             *)
(***************************************************************************)
\* d.get(k, default)
Get(v, k, default) == IF k \in DOMAIN v.d THEN v.d[k] ELSE default
\* d.get(k, "")
GetS(v, k) == Get(v, k, EmptyStr)
\* d.get(k)
GetN(v, k) == Get(v, k, None)
\* d.get(k, [])
GetL(v, k) == Get(v, k, EmptyList)

\* A dict display {k1: v1, ...} followed by the assignments d[k] = v made
\* after it: a later pair for a key replaces an earlier one.
MkDict(pairs) ==
    Dct([k \in {pairs[i][1] : i \in DOMAIN pairs} |->
            pairs[CHOOSE i \in DOMAIN pairs :
                     /\ pairs[i][1] = k
                     /\ \A j \in DOMAIN pairs : pairs[j][1] = k => j <= i][2]])

\* "if cond: d[k] = v" as the pairs it contributes to MkDict.
Opt(cond, k, v) == IF cond THEN << <<k, v>> >> ELSE <<>>

\* a or b
Or(a, b) == IF Truthy(a) THEN a ELSE b

\* Characters of the source that are not ASCII, each one character here.
EnDash == "ndash"
EmDash == "mdash"

Digits == S("0123456789")
IsDigit(c) == \E i \in DOMAIN Digits : Digits[i] = c
DigitValue(c) == (CHOOSE i \in DOMAIN Digits : Digits[i] = c) - 1

UpperChars == S("ABCDEFGHIJKLMNOPQRSTUVWXYZ")
LowerChars == S("abcdefghijklmnopqrstuvwxyz")
\* s.lower()
Lower(s) ==
    [i \in DOMAIN s |->
        IF \E j \in DOMAIN UpperChars : UpperChars[j] = s[i]
        THEN LowerChars[CHOOSE j \in DOMAIN UpperChars : UpperChars[j] = s[i]]
        ELSE s[i]]

\* s.replace(old, new) for single characters old and new
ReplaceChar(s, old, new) == [i \in DOMAIN s |-> IF s[i] = old THEN new ELSE s[i]]

\* s.replace(c, "")
RemoveChar(s, c) == SelectSeq(s, LAMBDA x : x # c)

\* The index of the first occurrence of sub in s, 0 when there is none.
Find(s, sub) ==
    IF Contains(s, sub)
    THEN CHOOSE i \in 1..(Len(s) - Len(sub) + 1) :
            /\ SubSeq(s, i, i + Len(sub) - 1) = sub
            /\ \A j \in 1..(i - 1) : SubSeq(s, j, j + Len(sub) - 1) # sub
    ELSE 0

\* s.split(sep)[0]
SplitFirst(s, sep) == IF Contains(s, sep) THEN SubSeq(s, 1, Find(s, sep) - 1) ELSE s

RECURSIVE SplitLast(_, _)
\* s.split(c)[-1] for a single character c
SplitLast(s, c) ==
    IF Contains(s, <<c>>)
    THEN SplitLast(SubSeq(s, Find(s, <<c>>) + 1, Len(s)), c)
    ELSE s

RECURSIVE Words(_)
\* s.split()
Words(s) ==
    LET rest == LStrip(s)
    IN  IF rest = <<>> THEN <<>>
        ELSE LET ends == {i \in DOMAIN rest : rest[i] \in Whitespace}
                 n == IF ends = {} THEN Len(rest) + 1
                      ELSE CHOOSE i \in ends : \A j \in ends : i <= j
             IN  <<SubSeq(rest, 1, n - 1)>> \o Words(SubSeq(rest, n, Len(rest)))

RECURSIVE ReplaceAll(_, _, _)
\* s.replace(old, new) for a non-empty old
ReplaceAll(s, old, new) ==
    IF Contains(s, old)
    THEN LET i == Find(s, old)
         IN  SubSeq(s, 1, i - 1) \o new
                \o ReplaceAll(SubSeq(s, i + Len(old), Len(s)), old, new)
    ELSE s

\* The text a value has in an f-string: str(v).
Fmt(v) ==
    CASE v.t = "str" -> v.s
      [] v.t = "none" -> S("None")
      [] v.t = "int" -> S(ToString(v.n))
      [] OTHER -> S("?")

(***************************************************************************)
(* Numbers: float(x) and int(x)                                            *)
(***************************************************************************)
\* The digits a float keeps after the decimal point.
FracDigits == 1
Flt(m) == [t |-> "float", m |-> m]

\* The sign and the unsigned text of a numeric string.
Unsigned(s) == IF s # <<>> /\ s[1] \in {"+", "-"} THEN Tail(s) ELSE s
SignOf(s) == IF s # <<>> /\ s[1] = "-" THEN -1 ELSE 1

RECURSIVE DigitsValue(_)
\* The number a string of digits denotes (0 for the empty string).
DigitsValue(s) ==
    IF s = <<>> THEN 0
    ELSE 10 * DigitsValue(SubSeq(s, 1, Len(s) - 1)) + DigitValue(s[Len(s)])

\* float(s) accepts the text: sign, digits, at most one point, a digit at
\* least.  (Exponents, "inf", "nan" and "_" are outside the modelled inputs.)
IsFloatText(s) ==
    LET body == Unsigned(Strip(s))
    IN  /\ \A i \in DOMAIN body : IsDigit(body[i]) \/ body[i] = "."
        /\ Cardinality({i \in DOMAIN body : body[i] = "."}) <= 1
        /\ \E i \in DOMAIN body : IsDigit(body[i])

\* float(s), as a multiple of 10^-FracDigits (further digits are dropped).
FloatOfText(s) ==
    LET body == Unsigned(Strip(s))
        whole == SplitFirst(body, <<".">>)
        after == IF Contains(body, <<".">>)
                 THEN SubSeq(body, Len(whole) + 2, Len(body)) ELSE <<>>
        frac == SubSeq(after \o [i \in 1..FracDigits |-> "0"], 1, FracDigits)
    IN  SignOf(Strip(s)) * (DigitsValue(whole) * (10 ^ FracDigits) + DigitsValue(frac))

\* float(v) raises ValueError or TypeError.
FloatFails(v) ==
    CASE v.t = "str" -> ~IsFloatText(v.s)
      [] v.t \in {"int", "float", "bool"} -> FALSE
      [] OTHER -> TRUE

\* float(v)
ToFloat(v) ==
    CASE v.t = "str" -> Flt(FloatOfText(v.s))
      [] v.t = "int" -> Flt(v.n * (10 ^ FracDigits))
      [] OTHER -> v

\* int(s) accepts the text: sign and digits.
IsIntText(s) ==
    LET body == Unsigned(Strip(s))
    IN  body # <<>> /\ \A i \in DOMAIN body : IsDigit(body[i])

IntOfText(s) == SignOf(Strip(s)) * DigitsValue(Unsigned(Strip(s)))

(***************************************************************************)
(* base.py: the entity builders                                            *)
(***************************************************************************)
\* def make_context()
make_context == Str(S("https://schema.org"))

\* def _ensure_https(url)
_ensure_https(u) ==
    IF Truthy(u) /\ StartsWith(u.s, S("http://"))
    THEN Str(S("https://") \o SubSeq(u.s, 8, Len(u.s)))
    ELSE u

\* def make_postal_address(data)
make_postal_address(data) ==
    clean_dict(MkDict(<<
        <<"@type", Str(S("PostalAddress"))>>,
        <<"streetAddress", GetS(data, "street_address")>>,
        <<"addressLocality", GetS(data, "city")>>,
        <<"addressRegion", GetS(data, "state")>>,
        <<"postalCode", GetS(data, "postal_code")>>,
        <<"addressCountry", GetS(data, "country")>> >>))

\* make_geo, were float() called outside a try block.
make_geo_uncaught(lat, lng) ==
    IF ~Truthy(lat) \/ ~Truthy(lng) THEN EmptyDict
    ELSE IF FloatFails(lat) \/ FloatFails(lng) THEN [t |-> "raise"]
    ELSE MkDict(<<
        <<"@type", Str(S("GeoCoordinates"))>>,
        <<"latitude", ToFloat(lat)>>,
        <<"longitude", ToFloat(lng)>> >>)

\* def make_geo(lat, lng)
make_geo(lat, lng) ==
    IF ~Truthy(lat) \/ ~Truthy(lng) THEN EmptyDict
    ELSE IF FloatFails(lat) \/ FloatFails(lng) THEN EmptyDict
    ELSE MkDict(<<
        <<"@type", Str(S("GeoCoordinates"))>>,
        <<"latitude", ToFloat(lat)>>,
        <<"longitude", ToFloat(lng)>> >>)

\* def make_geo_shape(postal_codes)
make_geo_shape(postal_codes) ==
    IF ~Truthy(postal_codes) THEN EmptyDict
    ELSE MkDict(<<
        <<"@type", Str(S("GeoShape"))>>,
        <<"postalCode", postal_codes>> >>)

\* make_aggregate_rating, were it to read the count with its commas.
make_aggregate_rating_with_commas(data) ==
    LET value == GetS(data, "aggregate_rating_value")
        count == GetS(data, "aggregate_rating_count")
    IN  IF ~Truthy(value) \/ ~Truthy(count) THEN EmptyDict
        ELSE IF FloatFails(value) \/ ~IsIntText(Fmt(count)) THEN EmptyDict
        ELSE MkDict(<<
            <<"@type", Str(S("AggregateRating"))>>,
            <<"ratingValue", ToFloat(value)>>,
            <<"reviewCount", IntV(IntOfText(Fmt(count)))>>,
            <<"bestRating", IntV(5)>>,
            <<"worstRating", IntV(1)>> >>)

\* def make_aggregate_rating(data)
make_aggregate_rating(data) ==
    LET value == GetS(data, "aggregate_rating_value")
        count == GetS(data, "aggregate_rating_count")
        \* str(count).replace(",", "")
        count_text == RemoveChar(Fmt(count), ",")
    IN  IF ~Truthy(value) \/ ~Truthy(count) THEN EmptyDict
        ELSE IF FloatFails(value) \/ ~IsIntText(count_text) THEN EmptyDict
        ELSE MkDict(<<
            <<"@type", Str(S("AggregateRating"))>>,
            <<"ratingValue", ToFloat(value)>>,
            <<"reviewCount", IntV(IntOfText(count_text))>>,
            <<"bestRating", IntV(5)>>,
            <<"worstRating", IntV(1)>> >>)

\* def make_service_area(data)
make_service_area(data) ==
    LET lat == GetS(data, "latitude")
        lng == GetS(data, "longitude")
        radius == GetS(data, "service_radius")
    IN  IF ~Truthy(lat) \/ ~Truthy(lng) \/ ~Truthy(radius) THEN EmptyDict
        ELSE IF FloatFails(lat) \/ FloatFails(lng) THEN EmptyDict
        ELSE MkDict(<<
            <<"@type", Str(S("GeoCircle"))>>,
            <<"geoMidpoint", MkDict(<<
                <<"@type", Str(S("GeoCoordinates"))>>,
                <<"latitude", ToFloat(lat)>>,
                <<"longitude", ToFloat(lng)>> >>)>>,
            <<"geoRadius", Str(Fmt(radius))>> >>)

\* The meta-names _is_valid_place_name rejects.
MetaNames ==
    {S("locations"), S("location"), S("areas"), S("area"), S("service area"),
     S("service areas"), S("areas we serve"), S("cities we serve")}
\* The SEO separators _is_valid_place_name rejects.
SeoSeparators ==
    {S(" - "), S(" | "), <<" ", EnDash, " ">>, <<" ", EmDash, " ">>}
\* The industry keywords _is_valid_place_name rejects.
IndustryKeywords ==
    {S("Plumbing"), S("Plumber"), S("HVAC"), S("Heating"), S("Cooling"),
     S("Dentist"), S("Dental"), S("Lawyer"), S("Attorney"), S("Electrician"),
     S("Contractor"), S("Roofing"), S("Roofer")}

\* _is_valid_place_name, were it to ignore the brand words.
_is_valid_place_name_any_brand(name, brand_words) ==
    IF ~Truthy(name) \/ Strip(name.s) = <<>> THEN FALSE
    ELSE LET n == Strip(name.s)
         IN  /\ ~(\E i \in DOMAIN n : IsDigit(n[i]))
             /\ Lower(n) \notin MetaNames
             /\ ~(Len(n) > 40)
             /\ \A bad \in SeoSeparators : ~Contains(n, bad)
             /\ \A bad \in IndustryKeywords : ~Contains(n, bad)

\* def _is_valid_place_name(name, brand_words); name is a str value.
_is_valid_place_name(name, brand_words) ==
    IF ~Truthy(name) \/ Strip(name.s) = <<>> THEN FALSE
    ELSE LET n == Strip(name.s)
         IN  /\ ~(\A i \in DOMAIN n : IsDigit(n[i]))
             /\ ~(\E i \in DOMAIN n : IsDigit(n[i]))
             /\ Lower(n) \notin MetaNames
             /\ ~(Len(n) > 40)
             /\ \A bad \in SeoSeparators : ~Contains(n, bad)
             /\ \A bad \in IndustryKeywords : ~Contains(n, bad)
             /\ (brand_words # {} => Lower(Words(n)[1]) \notin brand_words)

\* One place of make_area_served's list (lines 155-166).
PlaceEntry(name) ==
    LET place_type ==
            IF Contains(name.s, S("County")) \/ Contains(name.s, S("Region"))
                \/ Contains(name.s, S("District"))
            THEN S("AdministrativeArea") ELSE S("City")
    IN  MkDict(<< <<"@type", Str(place_type)>>, <<"name", name>> >>
               \o Opt(Len(Words(name.s)) <= 3 /\ ~Contains(name.s, S(",")),
                      "sameAs",
                      Str(S("https://en.wikipedia.org/wiki/")
                          \o ReplaceChar(name.s, " ", "_"))))

\* make_area_served, were its last line "return places".
make_area_served_always_list(data) ==
    LET postal_codes == GetL(data, "postal_codes")
        cities == GetL(data, "cities")
        country == GetS(data, "country")
        area_name == GetS(data, "area_served_name")
        brand_words ==
            IF Truthy(GetN(data, "business_name"))
            THEN LET ws == Words(GetN(data, "business_name").s)
                 IN  {Lower(ws[i]) : i \in {j \in DOMAIN ws : Len(ws[j]) > 3}}
            ELSE {}
        clean_cities ==
            SelectSeq(cities.l, LAMBDA c : _is_valid_place_name(c, brand_words))
        places == [i \in DOMAIN clean_cities |-> PlaceEntry(clean_cities[i])]
        with_codes ==
            IF Truthy(postal_codes)
            THEN Append(places, MkDict(<<
                    <<"@type", Str(S("AdministrativeArea"))>>,
                    <<"geo", make_geo_shape(postal_codes)>> >>))
            ELSE places
    IN  IF ~Truthy(postal_codes) /\ clean_cities = <<>>
        THEN IF Truthy(area_name)
             THEN MkDict(<< <<"@type", Str(S("AdministrativeArea"))>>,
                            <<"name", area_name>> >>)
             ELSE IF Truthy(country)
             THEN MkDict(<< <<"@type", Str(S("Country"))>>, <<"name", country>> >>)
             ELSE EmptyDict
        ELSE IF Truthy(postal_codes) /\ places = <<>>
        THEN MkDict(<<
                <<"@type", Str(S("AdministrativeArea"))>>,
                <<"name", Or(area_name, country)>>,
                <<"geo", make_geo_shape(postal_codes)>> >>)
        ELSE Lst(with_codes)

\* def make_area_served(data)
make_area_served(data) ==
    LET postal_codes == GetL(data, "postal_codes")
        cities == GetL(data, "cities")
        country == GetS(data, "country")
        area_name == GetS(data, "area_served_name")
        brand_words ==
            IF Truthy(GetN(data, "business_name"))
            THEN LET ws == Words(GetN(data, "business_name").s)
                 IN  {Lower(ws[i]) : i \in {j \in DOMAIN ws : Len(ws[j]) > 3}}
            ELSE {}
        clean_cities ==
            SelectSeq(cities.l, LAMBDA c : _is_valid_place_name(c, brand_words))
        places == [i \in DOMAIN clean_cities |-> PlaceEntry(clean_cities[i])]
        with_codes ==
            IF Truthy(postal_codes)
            THEN Append(places, MkDict(<<
                    <<"@type", Str(S("AdministrativeArea"))>>,
                    <<"geo", make_geo_shape(postal_codes)>> >>))
            ELSE places
    IN  IF ~Truthy(postal_codes) /\ clean_cities = <<>>
        THEN IF Truthy(area_name)
             THEN MkDict(<< <<"@type", Str(S("AdministrativeArea"))>>,
                            <<"name", area_name>> >>)
             ELSE IF Truthy(country)
             THEN MkDict(<< <<"@type", Str(S("Country"))>>, <<"name", country>> >>)
             ELSE EmptyDict
        ELSE IF Truthy(postal_codes) /\ places = <<>>
        THEN MkDict(<<
                <<"@type", Str(S("AdministrativeArea"))>>,
                <<"name", Or(area_name, country)>>,
                <<"geo", make_geo_shape(postal_codes)>> >>)
        ELSE IF Len(with_codes) > 1 THEN Lst(with_codes)
        ELSE IF with_codes # <<>> THEN with_codes[1]
        ELSE EmptyDict

\* The key of an entry, were 00:00-23:59 left as it is given.
HoursKey_as_given(h) ==
    <<Get(h, "opens", Str(S("09:00"))), Get(h, "closes", Str(S("17:00")))>>

\* The (opens, closes) key of one opening-hours entry (lines 197-202).
HoursKey(h) ==
    LET opens == Get(h, "opens", Str(S("09:00")))
        closes == Get(h, "closes", Str(S("17:00")))
    IN  IF opens = Str(S("00:00")) /\ closes = Str(S("23:59"))
        THEN <<opens, Str(S("24:00"))>>
        ELSE <<opens, closes>>

\* make_opening_hours, were it to emit one specification for each entry
\* that has a day.
make_opening_hours_unconsolidated(hours) ==
    IF ~Truthy(hours) THEN EmptyList
    ELSE LET with_day == SelectSeq(hours.l, LAMBDA h : Truthy(GetN(h, "day")))
         IN  Lst([n \in DOMAIN with_day |->
                    MkDict(<<
                        <<"@type", Str(S("OpeningHoursSpecification"))>>,
                        <<"dayOfWeek", GetN(with_day[n], "day")>>,
                        <<"opens", HoursKey(with_day[n])[1]>>,
                        <<"closes", HoursKey(with_day[n])[2]>> >>)])

\* def make_opening_hours(hours); hours is a list value.
make_opening_hours(hours) ==
    IF ~Truthy(hours) THEN EmptyList
    ELSE LET with_day == SelectSeq(hours.l, LAMBDA h : Truthy(GetN(h, "day")))
             \* the keys of groups, in the order of their first entry
             firsts == {i \in DOMAIN with_day :
                          \A j \in 1..(i - 1) : HoursKey(with_day[j]) # HoursKey(with_day[i])}
             nth(n) == CHOOSE i \in firsts : Cardinality({j \in firsts : j <= i}) = n
             days(key) ==
                 LET same == SelectSeq(with_day, LAMBDA h : HoursKey(h) = key)
                 IN  [i \in DOMAIN same |-> GetN(same[i], "day")]
             entry(key) ==
                 MkDict(<<
                    <<"@type", Str(S("OpeningHoursSpecification"))>>,
                    <<"dayOfWeek", IF Len(days(key)) > 1 THEN Lst(days(key))
                                   ELSE days(key)[1]>>,
                    <<"opens", key[1]>>,
                    <<"closes", key[2]>> >>)
         IN  Lst([n \in 1..Cardinality(firsts) |-> entry(HoursKey(with_day[nth(n)]))])

\* def make_image_object(url)
make_image_object(u) ==
    IF ~Truthy(u) THEN EmptyDict
    ELSE MkDict(<< <<"@type", Str(S("ImageObject"))>>,
                   <<"contentUrl", _ensure_https(u)>>,
                   <<"url", _ensure_https(u)>> >>)

\* def make_logo(url)
make_logo(u) ==
    IF ~Truthy(u) THEN EmptyDict
    ELSE MkDict(<< <<"@type", Str(S("ImageObject"))>>,
                   <<"contentUrl", _ensure_https(u)>>,
                   <<"url", _ensure_https(u)>> >>)

\* def make_contact_point(telephone, email)
make_contact_point(telephone, email) ==
    MkDict(<< <<"@type", Str(S("ContactPoint"))>>,
              <<"contactType", Str(S("Customer Service"))>> >>
           \o Opt(Truthy(telephone), "telephone", telephone)
           \o Opt(Truthy(email), "email", email))

\* def make_knows_about(items); items is a list value, the result a list value.
make_knows_about(items) ==
    LET named == SelectSeq(items.l, LAMBDA item : Truthy(GetN(item, "name")))
        thing(item) ==
            MkDict(<< <<"@type", Str(S("Thing"))>>, <<"name", GetN(item, "name")>> >>
                   \o Opt(Truthy(GetN(item, "wikipedia_url")),
                          "sameAs", GetN(item, "wikipedia_url")))
    IN  Lst([i \in DOMAIN named |-> thing(named[i])])

\* def make_same_as(urls); urls is a list value, the result a list value.
make_same_as(urls) ==
    Lst(SelectSeq(urls.l,
                  LAMBDA u : Truthy(u) /\ ~StartsWith(u.s, S("FILL-IN:"))))

\* The separators _clean_service_type splits on, in its order.
ServiceTypeSeparators ==
    <<S(" in "), S(" - "), S(" | "), <<" ", EnDash, " ">>, <<" ", EmDash, " ">>, S(" | ")>>

RECURSIVE CutAtSeparators(_, _)
\* The loop of _clean_service_type from its i-th separator on.
CutAtSeparators(raw, i) ==
    IF i > Len(ServiceTypeSeparators) THEN raw
    ELSE CutAtSeparators(
            IF Contains(raw, ServiceTypeSeparators[i])
            THEN Strip(SplitFirst(raw, ServiceTypeSeparators[i]))
            ELSE raw,
            i + 1)

\* def _clean_service_type(raw)
_clean_service_type(raw) ==
    Strip(RStripSet(CutAtSeparators(raw, 1), {".", ",", ";", ":"}))

\* A service of make_has_offer_catalog is skipped (lines 280-286).
ServiceSkipped(svc) ==
    \/ ~Truthy(GetN(svc, "name"))
    \/ LET slug == Lower(SplitLast(RStripSet(GetS(svc, "url").s, {"/"}), "/"))
       IN  EndsWith(slug, S("-old")) \/ EndsWith(slug, S("_old"))

\* One catalog entry of make_has_offer_catalog (lines 288-301).
CatalogEntry(svc, org_id) ==
    LET service_type ==
            _clean_service_type(Get(svc, "service_type", GetS(svc, "name")).s)
        offered ==
            clean_dict(MkDict(<<
                <<"@type", Str(S("Service"))>>,
                <<"name", GetS(svc, "name")>>,
                <<"url", GetS(svc, "url")>>,
                <<"serviceType", Str(service_type)>>,
                <<"description", GetS(svc, "description")>>,
                <<"provider", MkDict(<< <<"@id", org_id>> >>)>> >>))
        with_audience ==
            IF Truthy(GetN(svc, "audience"))
            THEN Dct(("audience" :> MkDict(<<
                        <<"@type", Str(S("Audience"))>>,
                        <<"audienceType", GetN(svc, "audience")>> >>)) @@ offered.d)
            ELSE offered
    IN  MkDict(<< <<"@type", Str(S("Offer"))>>, <<"itemOffered", with_audience>> >>)

\* def make_has_offer_catalog(services, org_id, catalog_name)
make_has_offer_catalog(services, org_id, catalog_name) ==
    LET kept == SelectSeq(services.l, LAMBDA svc : ~ServiceSkipped(svc))
        items == [i \in DOMAIN kept |-> CatalogEntry(kept[i], org_id)]
    IN  IF items = <<>> THEN EmptyDict
        ELSE clean_dict(MkDict(<<
                <<"@type", Str(S("OfferCatalog"))>>,
                <<"name", catalog_name>>,
                <<"itemListElement", Lst(items)>> >>))

(***************************************************************************)
(* organization.py                                                         *)
(***************************************************************************)
\* The "founder" property of both organization generators.
FounderOf(data, person_id) ==
    Opt(Truthy(GetN(data, "founder_name")), "founder",
        MkDict(<< <<"@type", Str(S("Person"))>>,
                  <<"@id", person_id>>,
                  <<"name", GetN(data, "founder_name")>> >>))

\* The "contactPoint" property of both organization generators.
ContactPointOf(data) ==
    Opt(Truthy(GetN(data, "telephone")) \/ Truthy(GetN(data, "email")),
        "contactPoint",
        make_contact_point(GetS(data, "telephone"), GetS(data, "email")))

\* The "logo" and "image" properties of both organization generators.
LogoImageOf(data) ==
    Opt(Truthy(GetN(data, "logo_url")), "logo", make_logo(GetN(data, "logo_url")))
    \o Opt(Truthy(GetN(data, "image_url")), "image",
           make_image_object(GetN(data, "image_url")))

\* The "knowsAbout" and "sameAs" properties of both organization generators.
KnowsSameOf(data) ==
    Opt(Truthy(GetL(data, "knows_about")), "knowsAbout",
        make_knows_about(GetL(data, "knows_about")))
    \o Opt(Truthy(make_same_as(GetL(data, "same_as"))), "sameAs",
           make_same_as(GetL(data, "same_as")))

\* def generate_organization(data)
generate_organization(data) ==
    LET base_url == normalize_url(GetS(data, "website_url"))
        org_id == build_id(base_url, S("organization"))
        person_id == build_id(base_url, S("person"))
    IN  clean_dict(MkDict(<<
            <<"@context", make_context>>,
            <<"@type", Str(S("Organization"))>>,
            <<"@id", org_id>>,
            <<"name", GetS(data, "business_name")>>,
            <<"legalName", Or(GetS(data, "legal_name"), GetS(data, "business_name"))>>,
            <<"alternateName", GetS(data, "alternate_name")>>,
            <<"url", base_url>>,
            <<"description", GetS(data, "description")>>,
            <<"disambiguatingDescription", GetS(data, "disambiguating_description")>>,
            <<"slogan", GetS(data, "slogan")>>,
            <<"foundingDate", GetS(data, "founding_date")>>,
            <<"foundingLocation", GetS(data, "founding_location")>>,
            <<"email", GetS(data, "email")>>,
            <<"telephone", GetS(data, "telephone")>> >>
            \o Opt(Truthy(GetN(data, "additional_types")), "additionalType",
                   GetN(data, "additional_types"))
            \o LogoImageOf(data)
            \o KnowsSameOf(data)
            \o ContactPointOf(data)
            \o FounderOf(data, person_id)
            \o Opt(Truthy(GetN(data, "parent_organization")), "parentOrganization",
                   MkDict(<< <<"@type", Str(S("Organization"))>>,
                             <<"name", GetN(data, "parent_organization")>> >>))
            \o Opt(Truthy(make_area_served(data)), "areaServed", make_area_served(data))
            \o Opt(Truthy(make_aggregate_rating(data)), "aggregateRating",
                   make_aggregate_rating(data))))

RECURSIVE AppendNew(_, _)
\* "for t in ts: if t not in acc: acc.append(t)"
AppendNew(acc, ts) ==
    IF ts = <<>> THEN acc
    ELSE AppendNew(IF \E i \in DOMAIN acc : acc[i] = Head(ts)
                   THEN acc ELSE Append(acc, Head(ts)),
                   Tail(ts))

\* Lines 115-120 of generate_local_business: the local list add_types, and
\* the facts record once they have run.  add_types starts as a new list and
\* the loop appends to it alone, so the list held by data is the one it held
\* before.
AddTypes(data) ==
    [add_types |->
        AppendNew(<<Str(S("LocalBusiness")), Str(S("Organization"))>>,
                  IF Truthy(GetN(data, "additional_types"))
                  THEN GetN(data, "additional_types").l ELSE <<>>),
     data |-> data]

\* The "makesOffer" list of generate_local_business (lines 178-186).
MakesOffer(special_offers) ==
    LET named == SelectSeq(special_offers.l, LAMBDA o : Truthy(GetN(o, "name")))
    IN  Lst([i \in DOMAIN named |->
                clean_dict(MkDict(<<
                    <<"@type", Str(S("Offer"))>>,
                    <<"name", GetS(named[i], "name")>>,
                    <<"description", GetS(named[i], "description")>> >>))])

\* def generate_local_business(data)
generate_local_business(data) ==
    LET base_url == normalize_url(GetS(data, "website_url"))
        org_id == build_id(base_url, S("organization"))
        person_id == build_id(base_url, S("person"))
        subtype == Get(data, "schema_subtype", Str(S("LocalBusiness")))
        schema_type ==
            IF subtype \in {Str(S("Organization")), Str(S("OnlineBusiness")), EmptyStr}
            THEN Str(S("LocalBusiness")) ELSE subtype
        add_types == AddTypes(data).add_types
        catalog ==
            make_has_offer_catalog(
                GetL(data, "services"), org_id,
                Str(Strip(Fmt(GetS(data, "business_name")) \o S(" Services"))))
    IN  clean_dict(MkDict(<<
            <<"@context", make_context>>,
            <<"@type", schema_type>>,
            <<"@id", org_id>>,
            <<"name", GetS(data, "business_name")>>,
            <<"legalName", Or(GetS(data, "legal_name"), GetS(data, "business_name"))>>,
            <<"alternateName", GetS(data, "alternate_name")>>,
            <<"url", base_url>>,
            <<"description", GetS(data, "description")>>,
            <<"disambiguatingDescription", GetS(data, "disambiguating_description")>>,
            <<"slogan", GetS(data, "slogan")>>,
            <<"priceRange", GetS(data, "price_range")>>,
            <<"email", GetS(data, "email")>>,
            <<"telephone", GetS(data, "telephone")>>,
            <<"paymentAccepted", GetS(data, "payment_accepted")>>,
            <<"currenciesAccepted", GetS(data, "currencies_accepted")>>,
            <<"foundingDate", GetS(data, "founding_date")>>,
            <<"foundingLocation", GetS(data, "founding_location")>>,
            <<"additionalType", Lst(add_types)>> >>
            \o LogoImageOf(data)
            \o Opt(Truthy(GetN(data, "has_map")), "hasMap", GetN(data, "has_map"))
            \o Opt(Truthy(make_postal_address(data)), "address", make_postal_address(data))
            \o Opt(Truthy(make_geo(GetS(data, "latitude"), GetS(data, "longitude"))),
                   "geo", make_geo(GetS(data, "latitude"), GetS(data, "longitude")))
            \o KnowsSameOf(data)
            \o ContactPointOf(data)
            \o Opt(Truthy(make_opening_hours(GetL(data, "opening_hours"))),
                   "openingHoursSpecification",
                   make_opening_hours(GetL(data, "opening_hours")))
            \o Opt(Truthy(make_area_served(data)), "areaServed", make_area_served(data))
            \o Opt(Truthy(make_service_area(data)), "serviceArea", make_service_area(data))
            \o Opt(Truthy(make_aggregate_rating(data)), "aggregateRating",
                   make_aggregate_rating(data))
            \o Opt(Truthy(GetL(data, "services")) /\ Truthy(catalog),
                   "hasOfferCatalog", catalog)
            \o Opt(Truthy(GetL(data, "special_offers")), "makesOffer",
                   MakesOffer(GetL(data, "special_offers")))
            \o FounderOf(data, person_id)))

(***************************************************************************)
(* website.py                                                              *)
(***************************************************************************)
\* {"@id": id}
IdRef(id) == MkDict(<< <<"@id", id>> >>)

\* def generate_website(data)
generate_website(data) ==
    LET base_url == normalize_url(GetS(data, "website_url"))
        website_id == build_id(base_url, S("website"))
        org_id == build_id(base_url, S("organization"))
    IN  clean_dict(MkDict(<<
            <<"@context", make_context>>,
            <<"@type", Str(S("WebSite"))>>,
            <<"@id", website_id>>,
            <<"url", base_url>>,
            <<"name", GetS(data, "business_name")>>,
            <<"description", GetS(data, "description")>>,
            <<"inLanguage", Get(data, "language", Str(S("en")))>>,
            <<"publisher", IdRef(org_id)>> >>
            \o Opt(Truthy(GetN(data, "enable_search_action")), "potentialAction",
                   MkDict(<<
                     <<"@type", Str(S("SearchAction"))>>,
                     <<"target", MkDict(<<
                         <<"@type", Str(S("EntryPoint"))>>,
                         <<"urlTemplate",
                           Str(base_url.s \o S("/?s={search_term_string}"))>> >>)>>,
                     <<"query-input", Str(S("required name=search_term_string"))>> >>))))

\* def generate_webpage(data, page_url, page_type)
generate_webpage(data, page_url, page_type) ==
    LET base_url == normalize_url(GetS(data, "website_url"))
        page == normalize_url(Or(page_url, base_url))
        webpage_id == build_id(page, S("webpage"))
        website_id == build_id(base_url, S("website"))
        org_id == build_id(base_url, S("organization"))
    IN  clean_dict(MkDict(<<
            <<"@context", make_context>>,
            <<"@type", page_type>>,
            <<"@id", webpage_id>>,
            <<"url", page>>,
            <<"name", Get(data, "page_title", GetS(data, "business_name"))>>,
            <<"description", Get(data, "page_description", GetS(data, "description"))>>,
            <<"inLanguage", Get(data, "language", Str(S("en")))>>,
            <<"isPartOf", IdRef(website_id)>>,
            <<"about", IdRef(org_id)>>,
            <<"publisher", IdRef(org_id)>> >>
            \o Opt(Truthy(GetL(data, "related_links")), "relatedLink",
                   GetL(data, "related_links"))
            \o Opt(Truthy(GetL(data, "significant_links")), "significantLink",
                   GetL(data, "significant_links"))))

\* The founder of generate_homepage's organization (lines 171-185).
HomepageFounder(data, person_id) ==
    MkDict(<< <<"@type", Str(S("Person"))>>,
              <<"@id", person_id>>,
              <<"name", GetS(data, "founder_name")>> >>
           \o Opt(Truthy(make_same_as(GetL(data, "person_same_as"))), "sameAs",
                  make_same_as(GetL(data, "person_same_as")))
           \o Opt(Truthy(GetL(data, "person_knows_about")), "knowsAbout",
                  make_knows_about(GetL(data, "person_knows_about")))
           \o Opt(Truthy(GetN(data, "job_title")), "jobTitle", GetN(data, "job_title")))

\* The organization record of generate_homepage (lines 89-185).
HomepageOrg(data) ==
    LET base_url == normalize_url(GetS(data, "website_url"))
        org_id == build_id(base_url, S("organization"))
        person_id == build_id(base_url, S("person"))
        subtype == Get(data, "schema_subtype", Str(S("LocalBusiness")))
        schema_type ==
            IF ~Truthy(subtype) \/ subtype = Str(S("Organization"))
            THEN Str(S("Organization")) ELSE subtype
        catalog ==
            make_has_offer_catalog(
                GetL(data, "services"), org_id,
                Str(Strip(Fmt(GetS(data, "business_name")) \o S(" Services"))))
    IN  MkDict(<<
            <<"@type", IF schema_type # Str(S("Organization"))
                       THEN Lst(<<schema_type, Str(S("Organization"))>>)
                       ELSE Str(S("Organization"))>>,
            <<"@id", org_id>>,
            <<"name", GetS(data, "business_name")>>,
            <<"legalName", Or(GetS(data, "legal_name"), GetS(data, "business_name"))>>,
            <<"url", base_url>>,
            <<"description", GetS(data, "description")>>,
            <<"disambiguatingDescription", GetS(data, "disambiguating_description")>>,
            <<"slogan", GetS(data, "slogan")>>,
            <<"email", GetS(data, "email")>>,
            <<"telephone", GetS(data, "telephone")>>,
            <<"priceRange", GetS(data, "price_range")>> >>
            \o Opt(Truthy(GetN(data, "additional_types")), "additionalType",
                   GetN(data, "additional_types"))
            \o Opt(Truthy(GetN(data, "logo_url")), "logo",
                   MkDict(<< <<"@type", Str(S("ImageObject"))>>,
                             <<"contentUrl", GetN(data, "logo_url")>> >>))
            \o Opt(Truthy(GetN(data, "image_url")), "image", GetN(data, "image_url"))
            \o Opt(Truthy(GetN(data, "has_map")), "hasMap", GetN(data, "has_map"))
            \o Opt(Truthy(make_postal_address(data)), "address", make_postal_address(data))
            \o Opt(Truthy(make_geo(GetS(data, "latitude"), GetS(data, "longitude"))),
                   "geo", make_geo(GetS(data, "latitude"), GetS(data, "longitude")))
            \o Opt(Truthy(make_same_as(GetL(data, "same_as"))), "sameAs",
                   make_same_as(GetL(data, "same_as")))
            \o Opt(Truthy(GetL(data, "knows_about")), "knowsAbout",
                   make_knows_about(GetL(data, "knows_about")))
            \o Opt(Truthy(make_area_served(data)), "areaServed", make_area_served(data))
            \o Opt(Truthy(make_service_area(data)), "serviceArea", make_service_area(data))
            \o Opt(Truthy(make_aggregate_rating(data)), "aggregateRating",
                   make_aggregate_rating(data))
            \o Opt(Truthy(make_opening_hours(GetL(data, "opening_hours"))),
                   "openingHoursSpecification",
                   make_opening_hours(GetL(data, "opening_hours")))
            \o Opt(Truthy(GetL(data, "services")) /\ Truthy(catalog),
                   "hasOfferCatalog", catalog)
            \o Opt(Truthy(GetL(data, "special_offers")), "makesOffer",
                   MakesOffer(GetL(data, "special_offers")))
            \o Opt(Truthy(GetS(data, "founder_name")), "founder",
                   HomepageFounder(data, person_id)))

\* def generate_homepage(data)
generate_homepage(data) ==
    LET base_url == normalize_url(GetS(data, "website_url"))
        webpage_id == build_id(base_url, S("webpage"))
        website_id == build_id(base_url, S("website"))
        org_id == build_id(base_url, S("organization"))
        website ==
            MkDict(<<
                <<"@type", Str(S("WebSite"))>>,
                <<"@id", website_id>>,
                <<"url", base_url>>,
                <<"name", GetS(data, "business_name")>>,
                <<"publisher", clean_dict(HomepageOrg(data))>>,
                <<"about", IdRef(org_id)>> >>)
    IN  clean_dict(MkDict(<<
            <<"@context", make_context>>,
            <<"@type", Str(S("WebPage"))>>,
            <<"@id", webpage_id>>,
            <<"url", base_url>>,
            <<"name", Get(data, "page_title", GetS(data, "business_name"))>>,
            <<"description", Get(data, "page_description", GetS(data, "description"))>>,
            <<"inLanguage", Get(data, "language", Str(S("en")))>>,
            <<"mainEntity", IdRef(org_id)>>,
            <<"isPartOf", clean_dict(website)>> >>
            \o Opt(Truthy(GetL(data, "related_links")), "relatedLink",
                   GetL(data, "related_links"))))

\* {"@type": "WebSite", "@id": ..., "url": ..., "publisher": {"@id": ...}}
WebSiteRef(base_url) ==
    MkDict(<<
        <<"@type", Str(S("WebSite"))>>,
        <<"@id", build_id(base_url, S("website"))>>,
        <<"url", base_url>>,
        <<"publisher", IdRef(build_id(base_url, S("organization")))>> >>)

\* The person record of generate_about_page (lines 226-263).
AboutPerson(data) ==
    LET base_url == normalize_url(GetS(data, "website_url"))
        about_url == normalize_url(Get(data, "about_page_url",
                                       Str(base_url.s \o S("/about"))))
        org_id == build_id(base_url, S("organization"))
        person_id == build_id(base_url, S("person"))
        knows_about_items ==
            Or(GetL(data, "person_knows_about"), GetL(data, "knows_about"))
    IN  MkDict(<<
            <<"@type", Str(S("Person"))>>,
            <<"@id", person_id>>,
            <<"name", Or(GetS(data, "founder_name"), GetS(data, "person_name"))>>,
            <<"url", about_url>>,
            <<"description", GetS(data, "person_description")>>,
            <<"jobTitle", GetS(data, "job_title")>>,
            <<"email", Get(data, "person_email", GetS(data, "email"))>>,
            <<"telephone", Get(data, "person_telephone", GetS(data, "telephone"))>> >>
            \o Opt(Truthy(GetN(data, "person_image")), "image", GetN(data, "person_image"))
            \o Opt(Truthy(base_url), "worksFor", IdRef(org_id))
            \o Opt(Truthy(knows_about_items), "knowsAbout",
                   make_knows_about(knows_about_items))
            \o Opt(Truthy(make_same_as(GetL(data, "person_same_as"))), "sameAs",
                   make_same_as(GetL(data, "person_same_as")))
            \o Opt(Truthy(GetN(data, "alumni_of")), "alumniOf",
                   MkDict(<< <<"@type", Str(S("EducationalOrganization"))>>,
                             <<"name", GetN(data, "alumni_of")>> >>
                          \o Opt(Truthy(GetN(data, "alumni_of_url")), "@id",
                                 GetN(data, "alumni_of_url"))))
            \o Opt(Truthy(GetN(data, "has_credential")), "hasCredential",
                   GetN(data, "has_credential"))
            \o Opt(Truthy(GetN(data, "knows_language")), "knowsLanguage",
                   GetN(data, "knows_language")))

\* def generate_about_page(data)
generate_about_page(data) ==
    LET base_url == normalize_url(GetS(data, "website_url"))
        about_url == normalize_url(Get(data, "about_page_url",
                                       Str(base_url.s \o S("/about"))))
        webpage_id == build_id(about_url, S("webpage"))
        org_id == build_id(base_url, S("organization"))
    IN  clean_dict(MkDict(<<
            <<"@context", make_context>>,
            <<"@type", Str(S("AboutPage"))>>,
            <<"@id", webpage_id>>,
            <<"url", about_url>>,
            <<"name", Get(data, "about_page_title",
                          Str(S("About ") \o Fmt(GetS(data, "business_name"))))>>,
            <<"description", Get(data, "about_page_description",
                                 GetS(data, "person_description"))>>,
            <<"inLanguage", Get(data, "language", Str(S("en")))>>,
            <<"mainEntity", clean_dict(AboutPerson(data))>>,
            <<"isPartOf", WebSiteRef(base_url)>>,
            <<"about", IdRef(org_id)>> >>
            \o Opt(Truthy(GetL(data, "related_links")), "relatedLink",
                   GetL(data, "related_links"))))

\* def generate_contact_page(data)
generate_contact_page(data) ==
    LET base_url == normalize_url(GetS(data, "website_url"))
        contact_url == normalize_url(Get(data, "contact_page_url",
                                         Str(base_url.s \o S("/contact"))))
        webpage_id == build_id(contact_url, S("webpage"))
        org_id == build_id(base_url, S("organization"))
    IN  clean_dict(MkDict(<<
            <<"@context", make_context>>,
            <<"@type", Str(S("ContactPage"))>>,
            <<"@id", webpage_id>>,
            <<"url", contact_url>>,
            <<"name", Get(data, "contact_page_title",
                          Str(S("Contact ") \o Fmt(GetS(data, "business_name"))))>>,
            <<"description", GetS(data, "contact_page_description")>>,
            <<"inLanguage", Get(data, "language", Str(S("en")))>>,
            <<"about", IdRef(org_id)>>,
            <<"mainEntity", MkDict(<<
                <<"@id", org_id>>,
                <<"@type", Get(data, "schema_subtype", Str(S("Organization")))>>,
                <<"name", GetS(data, "business_name")>>,
                <<"telephone", GetS(data, "telephone")>>,
                <<"email", GetS(data, "email")>>,
                <<"address", MkDict(<<
                    <<"@type", Str(S("PostalAddress"))>>,
                    <<"streetAddress", GetS(data, "street_address")>>,
                    <<"addressLocality", GetS(data, "city")>>,
                    <<"addressRegion", GetS(data, "state")>>,
                    <<"postalCode", GetS(data, "postal_code")>>,
                    <<"addressCountry", GetS(data, "country")>> >>)>> >>)>>,
            <<"isPartOf", WebSiteRef(base_url)>> >>))

(***************************************************************************)
(* person.py                                                               *)
(***************************************************************************)
\* The "alumniOf" property of generate_person (lines 56-63).
AlumniOf(data) ==
    Opt(Truthy(GetS(data, "alumni_of")), "alumniOf",
        MkDict(<< <<"@type", Str(S("EducationalOrganization"))>>,
                  <<"name", GetS(data, "alumni_of")>> >>
               \o Opt(Truthy(GetN(data, "alumni_of_url")), "@id",
                      GetN(data, "alumni_of_url"))))

\* def generate_person(data, base_url)
generate_person(data, base_url) ==
    LET base == normalize_url(Or(base_url, GetS(data, "website_url")))
        person_id == build_id(base, S("person"))
        org_id == build_id(base, S("organization"))
    IN  clean_dict(MkDict(<<
            <<"@context", make_context>>,
            <<"@type", Str(S("Person"))>>,
            <<"@id", person_id>>,
            <<"name", Or(GetS(data, "founder_name"), GetS(data, "person_name"))>>,
            <<"alternateName", GetS(data, "person_alternate_name")>>,
            <<"description", GetS(data, "person_description")>>,
            <<"url", Get(data, "person_url", base)>>,
            <<"email", GetS(data, "person_email")>>,
            <<"telephone", GetS(data, "person_telephone")>>,
            <<"jobTitle", GetS(data, "job_title")>>,
            <<"gender", GetS(data, "gender")>>,
            <<"nationality", GetS(data, "nationality")>>,
            <<"birthDate", GetS(data, "birth_date")>>,
            <<"birthPlace", GetS(data, "birth_place")>>,
            <<"memberOf", GetS(data, "member_of")>> >>
            \o Opt(Truthy(GetN(data, "person_image")), "image", GetN(data, "person_image"))
            \o Opt(Truthy(GetN(data, "job_title")), "jobTitle",
                   MkDict(<< <<"@type", Str(S("DefinedTerm"))>>,
                             <<"name", GetN(data, "job_title")>> >>
                          \o Opt(Truthy(GetN(data, "job_title_same_as")), "sameAs",
                                 GetN(data, "job_title_same_as"))))
            \o Opt(Truthy(base), "worksFor", IdRef(org_id))
            \o Opt(Truthy(base), "owns", IdRef(org_id))
            \o Opt(Truthy(GetL(data, "person_knows_about")), "knowsAbout",
                   make_knows_about(GetL(data, "person_knows_about")))
            \o Opt(Truthy(GetN(data, "knows_language")), "knowsLanguage",
                   GetN(data, "knows_language"))
            \o AlumniOf(data)
            \o Opt(Truthy(GetS(data, "has_credential")), "hasCredential",
                   GetS(data, "has_credential"))
            \o Opt(Truthy(GetS(data, "award")), "award", GetS(data, "award"))
            \o Opt(Truthy(make_same_as(GetL(data, "person_same_as"))), "sameAs",
                   make_same_as(GetL(data, "person_same_as")))
            \o Opt(Truthy(make_postal_address(data)), "address",
                   make_postal_address(data))))

\* def generate_author_reference(data, base_url)
generate_author_reference(data, base_url) ==
    LET person_name == Or(GetS(data, "founder_name"), GetS(data, "person_name"))
    IN  IF ~Truthy(person_name) THEN EmptyDict
        ELSE MkDict(<< <<"@type", Str(S("Person"))>>,
                       <<"@id", build_id(normalize_url(base_url), S("person"))>>,
                       <<"name", person_name>> >>)

(***************************************************************************)
(* service.py                                                              *)
(***************************************************************************)
\* One offer of a service catalog; extra holds the pairs only
\* generate_service_page gives its offers ("audience", "areaServed").
ServiceOffer(s, org_id, extra) ==
    MkDict(<<
        <<"@type", Str(S("Offer"))>>,
        <<"itemOffered", MkDict(<<
            <<"@type", Str(S("Service"))>>,
            <<"name", GetS(s, "name")>>,
            <<"url", GetS(s, "url")>>,
            <<"serviceType", Get(s, "service_type", GetS(s, "name"))>>,
            <<"provider", IdRef(org_id)>>,
            <<"brand", IdRef(org_id)>> >> \o extra)>> >>)

\* The service record of generate_service_page (lines 23-63).
ServiceOf(data) ==
    LET base_url == normalize_url(GetS(data, "website_url"))
        service_url == normalize_url(GetS(data, "service_page_url"))
        org_id == build_id(base_url, S("organization"))
        service_name == GetS(data, "service_name")
        service_id ==
            IF Truthy(service_url)
            THEN build_id(Or(service_url, base_url), S("service"))
            ELSE build_id(base_url,
                          S("service-") \o ReplaceChar(Lower(service_name.s), " ", "-"))
        area == make_area_served(data)
        area_or_none == IF Truthy(area) THEN area ELSE None
        named == SelectSeq(GetL(data, "sub_services").l,
                           LAMBDA s : Truthy(GetN(s, "name")))
    IN  MkDict(<<
            <<"@context", make_context>>,
            <<"@type", Str(S("Service"))>>,
            <<"@id", service_id>>,
            <<"name", service_name>>,
            <<"description", GetS(data, "service_description")>>,
            <<"serviceType", Get(data, "service_type", service_name)>>,
            <<"url", Or(service_url, base_url)>>,
            <<"audience", GetS(data, "service_audience")>>,
            <<"provider", IdRef(org_id)>>,
            <<"brand", IdRef(org_id)>> >>
            \o Opt(Truthy(GetN(data, "service_additional_type")), "additionalType",
                   GetN(data, "service_additional_type"))
            \o Opt(Truthy(area), "areaServed", area)
            \o Opt(Truthy(GetL(data, "sub_services")), "hasOfferCatalog",
                   MkDict(<<
                     <<"@type", Str(S("OfferCatalog"))>>,
                     <<"name", Str(Fmt(service_name) \o S(" Services"))>>,
                     <<"itemListElement",
                       Lst([i \in DOMAIN named |->
                             ServiceOffer(named[i], org_id,
                               << <<"audience", GetS(named[i], "audience")>>,
                                  <<"areaServed", area_or_none>> >>)])>> >>)))

\* def generate_service_page(data)
generate_service_page(data) ==
    LET base_url == normalize_url(GetS(data, "website_url"))
        service_url == normalize_url(GetS(data, "service_page_url"))
        webpage_id == build_id(Or(service_url, base_url), S("webpage"))
    IN  clean_dict(MkDict(<<
            <<"@context", make_context>>,
            <<"@type", Str(S("WebPage"))>>,
            <<"@id", webpage_id>>,
            <<"url", Or(service_url, base_url)>>,
            <<"name", Get(data, "service_page_title", GetS(data, "service_name"))>>,
            <<"description", Get(data, "service_page_description",
                                 GetS(data, "service_description"))>>,
            <<"inLanguage", Get(data, "language", Str(S("en")))>>,
            <<"mainEntity", clean_dict(ServiceOf(data))>>,
            <<"about", clean_dict(ServiceOf(data))>>,
            <<"isPartOf", WebSiteRef(base_url)>> >>))

\* The decimal text of a natural number: str(n).
RECURSIVE NatText(_)
NatText(n) ==
    IF n < 10 THEN <<Digits[n + 1]>>
    ELSE NatText(n \div 10) \o <<Digits[(n % 10) + 1]>>

\* The node of generate_multi_service_page for its idx-th category (from 0).
ServiceNode(data, cat, idx) ==
    LET base_url == normalize_url(GetS(data, "website_url"))
        services_page_url ==
            normalize_url(Get(data, "services_page_url",
                              Str(base_url.s \o S("/services"))))
        org_id == build_id(base_url, S("organization"))
        area == make_area_served(data)
        cat_name == Get(cat, "name", Str(S("Service ") \o NatText(idx + 1)))
        cat_url == GetS(cat, "url")
        cat_id == build_id(Or(cat_url, base_url), S("service-") \o NatText(idx + 1))
        sub_items == GetL(cat, "services")
        named == SelectSeq(sub_items.l, LAMBDA s : Truthy(GetN(s, "name")))
        offer_catalog ==
            IF Truthy(sub_items)
            THEN MkDict(<<
                    <<"@type", Str(S("OfferCatalog"))>>,
                    <<"name", cat_name>>,
                    <<"itemListElement",
                      Lst([i \in DOMAIN named |-> ServiceOffer(named[i], org_id, <<>>)])>> >>)
            ELSE None
    IN  clean_dict(MkDict(<<
            <<"@type", Str(S("Service"))>>,
            <<"@id", cat_id>>,
            <<"name", cat_name>>,
            <<"description", GetS(cat, "description")>>,
            <<"serviceType", Get(cat, "service_type", cat_name)>>,
            <<"url", Or(cat_url, services_page_url)>>,
            <<"provider", IdRef(org_id)>>,
            <<"brand", IdRef(org_id)>>,
            <<"areaServed", IF Truthy(area) THEN area ELSE None>>,
            <<"hasOfferCatalog", offer_catalog>> >>))

\* def generate_multi_service_page(data)
generate_multi_service_page(data) ==
    LET base_url == normalize_url(GetS(data, "website_url"))
        services_page_url ==
            normalize_url(Get(data, "services_page_url",
                              Str(base_url.s \o S("/services"))))
        org_id == build_id(base_url, S("organization"))
        webpage_id == build_id(services_page_url, S("webpage"))
        service_categories == GetL(data, "service_categories").l
        page ==
            clean_dict(MkDict(<<
                <<"@type", Str(S("WebPage"))>>,
                <<"@id", webpage_id>>,
                <<"url", services_page_url>>,
                <<"name", Get(data, "services_page_title",
                              Str(S("Services ") \o <<EmDash>> \o S(" ")
                                  \o Fmt(GetS(data, "business_name"))))>>,
                <<"description", GetS(data, "services_page_description")>>,
                <<"inLanguage", Get(data, "language", Str(S("en")))>>,
                <<"about", IdRef(org_id)>>,
                <<"isPartOf", WebSiteRef(base_url)>> >>))
    IN  MkDict(<<
            <<"@context", make_context>>,
            <<"@graph", Lst(<<page>> \o
                [i \in DOMAIN service_categories |->
                    ServiceNode(data, service_categories[i], i - 1)])>> >>)

(***************************************************************************)
(* faq.py                                                                  *)
(***************************************************************************)
RECURSIVE LinkAnswer(_, _)
\* The loop of _build_answer_text over links (a sequence), text a string.
LinkAnswer(text, links) ==
    IF links = <<>> THEN text
    ELSE LET anchor == GetS(Head(links), "anchor_text")
             u == GetS(Head(links), "url")
         IN  LinkAnswer(
                IF Truthy(anchor) /\ Truthy(u)
                THEN ReplaceAll(text, anchor.s,
                                S("<a href='") \o Fmt(u) \o S("'>") \o anchor.s \o S("</a>"))
                ELSE text,
                Tail(links))

\* def _build_answer_text(text, links)
_build_answer_text(text, links) ==
    IF ~Truthy(links) THEN text ELSE Str(LinkAnswer(text.s, links.l))

\* The "mentions" list of generate_faq and generate_blog_post.
Mentions(mentions_items) ==
    LET named == SelectSeq(mentions_items.l, LAMBDA m : Truthy(GetN(m, "name")))
    IN  Lst([i \in DOMAIN named |->
                clean_dict(MkDict(<<
                    <<"@type", Get(named[i], "type", Str(S("Thing")))>>,
                    <<"name", GetS(named[i], "name")>>,
                    <<"@id", GetS(named[i], "wikidata_id")>>,
                    <<"sameAs", GetS(named[i], "wikipedia_url")>> >>))])

\* A question of the FAQ generators is kept.
QuestionKept(q) == Truthy(GetS(q, "question")) /\ Truthy(GetS(q, "answer"))

\* One Question of generate_faq's main_entity (lines 41-69).
FaqQuestion(q, with_mentions) ==
    MkDict(<<
        <<"@type", Str(S("Question"))>>,
        <<"name", GetS(q, "question")>>,
        <<"acceptedAnswer",
          MkDict(<< <<"@type", Str(S("Answer"))>>,
                    <<"text", _build_answer_text(GetS(q, "answer"),
                                                 GetL(q, "answer_links"))>> >>
                 \o Opt(with_mentions /\ Truthy(GetL(q, "mentions")), "mentions",
                        Mentions(GetL(q, "mentions"))))>> >>)

\* The main_entity list of the FAQ generators.
MainEntity(data, with_mentions) ==
    LET kept == SelectSeq(GetL(data, "questions").l, QuestionKept)
    IN  Lst([i \in DOMAIN kept |-> FaqQuestion(kept[i], with_mentions)])

\* The "reviewedBy" value of the FAQ generators.
ReviewedBy(data, base_url) ==
    LET founder_name == Or(GetS(data, "founder_name"), GetS(data, "person_name"))
    IN  IF Truthy(founder_name)
        THEN MkDict(<< <<"@type", Str(S("Person"))>>,
                       <<"@id", build_id(base_url, S("person"))>>,
                       <<"name", founder_name>> >>)
        ELSE IdRef(build_id(base_url, S("organization")))

\* def generate_faq(data)
\* generate_faq, were it to return faq_schema without clean_dict.
generate_faq_unpruned(data) ==
    LET base_url == normalize_url(GetS(data, "website_url"))
        faq_page_url == normalize_url(Get(data, "faq_page_url",
                                          Str(base_url.s \o S("/faq"))))
        org_id == build_id(base_url, S("organization"))
    IN  MkDict(<<
            <<"@context", make_context>>,
            <<"@type", Str(S("FAQPage"))>>,
            <<"@id", build_id(faq_page_url, S("faqpage"))>>,
            <<"url", faq_page_url>>,
            <<"name", Get(data, "faq_page_title",
                          Str(S("FAQ ") \o <<EmDash>> \o S(" ")
                              \o Fmt(GetS(data, "business_name"))))>>,
            <<"description", GetS(data, "faq_page_description")>>,
            <<"inLanguage", Get(data, "language", Str(S("en")))>>,
            <<"author", IdRef(org_id)>>,
            <<"reviewedBy", ReviewedBy(data, base_url)>>,
            <<"mainEntity", MainEntity(data, TRUE)>>,
            <<"isPartOf", MkDict(<<
                <<"@type", Str(S("WebPage"))>>,
                <<"@id", build_id(faq_page_url, S("webpage"))>>,
                <<"url", faq_page_url>>,
                <<"isPartOf", WebSiteRef(base_url)>> >>)>> >>)

generate_faq(data) ==
    LET base_url == normalize_url(GetS(data, "website_url"))
        faq_page_url == normalize_url(Get(data, "faq_page_url",
                                          Str(base_url.s \o S("/faq"))))
        org_id == build_id(base_url, S("organization"))
    IN  clean_dict(MkDict(<<
            <<"@context", make_context>>,
            <<"@type", Str(S("FAQPage"))>>,
            <<"@id", build_id(faq_page_url, S("faqpage"))>>,
            <<"url", faq_page_url>>,
            <<"name", Get(data, "faq_page_title",
                          Str(S("FAQ ") \o <<EmDash>> \o S(" ")
                              \o Fmt(GetS(data, "business_name"))))>>,
            <<"description", GetS(data, "faq_page_description")>>,
            <<"inLanguage", Get(data, "language", Str(S("en")))>>,
            <<"author", IdRef(org_id)>>,
            <<"reviewedBy", ReviewedBy(data, base_url)>>,
            <<"mainEntity", MainEntity(data, TRUE)>>,
            <<"isPartOf", MkDict(<<
                <<"@type", Str(S("WebPage"))>>,
                <<"@id", build_id(faq_page_url, S("webpage"))>>,
                <<"url", faq_page_url>>,
                <<"isPartOf", WebSiteRef(base_url)>> >>)>> >>))

\* def generate_faq_nested_in_page(data, page_url)
generate_faq_nested_in_page(data, page_url) ==
    LET base_url == normalize_url(GetS(data, "website_url"))
        page == normalize_url(page_url)
        webpage_id == build_id(page, S("webpage"))
        org_id == build_id(base_url, S("organization"))
        webpage_node ==
            clean_dict(MkDict(<<
                <<"@type", Str(S("WebPage"))>>,
                <<"@id", webpage_id>>,
                <<"url", page>>,
                <<"name", GetS(data, "page_title")>>,
                <<"description", GetS(data, "page_description")>>,
                <<"inLanguage", Get(data, "language", Str(S("en")))>>,
                <<"isPartOf", WebSiteRef(base_url)>> >>))
        faq_node ==
            clean_dict(MkDict(<<
                <<"@type", Str(S("FAQPage"))>>,
                <<"@id", build_id(page, S("faqpage"))>>,
                <<"author", IdRef(org_id)>>,
                <<"reviewedBy", ReviewedBy(data, base_url)>>,
                <<"mainEntity", MainEntity(data, FALSE)>>,
                <<"isPartOf", IdRef(webpage_id)>> >>))
    IN  MkDict(<< <<"@context", make_context>>,
                  <<"@graph", Lst(<<webpage_node, faq_node>>)>> >>)

(***************************************************************************)
(* blog.py                                                                 *)
(***************************************************************************)
\* def generate_blog_post(data)
generate_blog_post(data) ==
    LET base_url == normalize_url(GetS(data, "website_url"))
        post_url == normalize_url(GetS(data, "post_url"))
        org_id == build_id(base_url, S("organization"))
        person_id == build_id(base_url, S("person"))
        founder_name == Or(GetS(data, "founder_name"), GetS(data, "person_name"))
        person_ref == MkDict(<< <<"@type", Str(S("Person"))>>,
                                <<"@id", person_id>>,
                                <<"name", founder_name>> >>)
    IN  clean_dict(MkDict(<<
            <<"@context", make_context>>,
            <<"@type", Str(S("BlogPosting"))>>,
            <<"@id", build_id(Or(post_url, base_url), S("blogposting"))>>,
            <<"url", post_url>>,
            <<"headline", GetS(data, "post_title")>>,
            <<"name", GetS(data, "post_title")>>,
            <<"description", GetS(data, "post_description")>>,
            <<"articleBody", GetS(data, "article_body")>>,
            <<"keywords", GetS(data, "keywords")>>,
            <<"datePublished", GetS(data, "date_published")>>,
            <<"dateModified", Get(data, "date_modified", GetS(data, "date_published"))>>,
            <<"inLanguage", Get(data, "language", Str(S("en")))>> >>
            \o Opt(Truthy(founder_name) \/ Truthy(person_id), "author", person_ref)
            \o (IF Truthy(GetN(data, "reviewed_by_name"))
                THEN << <<"reviewedBy", MkDict(<<
                            <<"@type", Str(S("Person"))>>,
                            <<"name", GetN(data, "reviewed_by_name")>>,
                            <<"jobTitle", GetS(data, "reviewed_by_title")>> >>)>> >>
                ELSE Opt(Truthy(founder_name), "reviewedBy", person_ref))
            \o Opt(Truthy(GetN(data, "post_image")), "image",
                   MkDict(<<
                     <<"@type", Str(S("ImageObject"))>>,
                     <<"representativeOfPage", Bool(TRUE)>>,
                     <<"contentUrl", GetN(data, "post_image")>>,
                     <<"url", GetN(data, "post_image")>>,
                     <<"copyrightHolder", IdRef(org_id)>>,
                     <<"creator", IF Truthy(founder_name) THEN IdRef(person_id)
                                  ELSE IdRef(org_id)>> >>))
            \o << <<"publisher", IdRef(org_id)>>,
                  <<"isPartOf", MkDict(<<
                      <<"@type", Str(S("WebSite"))>>,
                      <<"@id", build_id(base_url, S("website"))>>,
                      <<"url", base_url>>,
                      <<"name", GetS(data, "business_name")>>,
                      <<"publisher", IdRef(org_id)>> >>)>> >>
            \o Opt(Truthy(GetL(data, "mentions")), "mentions",
                   Mentions(GetL(data, "mentions")))
            \o Opt(Truthy(GetN(data, "word_count")), "wordCount", GetN(data, "word_count"))
            \o Opt(Truthy(GetN(data, "article_section")), "articleSection",
                   GetN(data, "article_section"))
            \o << <<"mainEntityOfPage", MkDict(<<
                      <<"@type", Str(S("WebPage"))>>,
                      <<"@id", build_id(Or(post_url, base_url), S("webpage"))>> >>)>> >>))

(***************************************************************************)
(* breadcrumb.py                                                           *)
(***************************************************************************)
\* def generate_breadcrumb(data)
generate_breadcrumb(data) ==
    LET base_url == normalize_url(GetS(data, "website_url"))
        page_url == normalize_url(Get(data, "current_page_url", base_url))
        given == GetL(data, "breadcrumb_items")
        items == IF ~Truthy(given)
                 THEN << MkDict(<< <<"name", Str(S("Home"))>>, <<"url", base_url>> >>) >>
                 ELSE given.l
        \* enumerate(items), then the "if item.get('name')" filter
        named == SelectSeq([i \in DOMAIN items |-> <<i, items[i]>>],
                           LAMBDA p : Truthy(GetN(p[2], "name")))
    IN  clean_dict(MkDict(<<
            <<"@context", make_context>>,
            <<"@type", Str(S("BreadcrumbList"))>>,
            <<"@id", build_id(page_url, S("breadcrumb"))>>,
            <<"itemListElement",
              Lst([k \in DOMAIN named |->
                    MkDict(<<
                        <<"@type", Str(S("ListItem"))>>,
                        <<"position", IntV(named[k][1])>>,
                        <<"name", GetS(named[k][2], "name")>>,
                        <<"item", normalize_url(Get(named[k][2], "url", base_url))>> >>)])>> >>))

(***************************************************************************)
(* product.py                                                              *)
(***************************************************************************)
\* availability_map.get(label, "https://schema.org/InStock")
AvailabilityUrl(label) ==
    CASE label = Str(S("Out of Stock")) -> Str(S("https://schema.org/OutOfStock"))
      [] label = Str(S("Pre-order")) -> Str(S("https://schema.org/PreOrder"))
      [] label = Str(S("Discontinued")) -> Str(S("https://schema.org/Discontinued"))
      [] OTHER -> Str(S("https://schema.org/InStock"))

\* {"@type": "QuantitativeValue", "minValue": ..., "maxValue": ..., "unitCode": "DAY"}
DayRange(data, min_key, min_default, max_key, max_default) ==
    MkDict(<<
        <<"@type", Str(S("QuantitativeValue"))>>,
        <<"minValue", Get(data, min_key, IntV(min_default))>>,
        <<"maxValue", Get(data, max_key, IntV(max_default))>>,
        <<"unitCode", Str(S("DAY"))>> >>)

\* def _build_offers(data, org_id, product_url); None when there is no price.
_build_offers(data, org_id, product_url) ==
    LET price == GetS(data, "price")
        currency == Get(data, "currency", Str(S("USD")))
    IN  IF ~Truthy(price) THEN None
        ELSE clean_dict(MkDict(<<
            <<"@type", Str(S("Offer"))>>,
            <<"url", product_url>>,
            <<"priceCurrency", currency>>,
            <<"price", price>>,
            <<"priceValidUntil", GetS(data, "price_valid_until")>>,
            <<"itemCondition", Str(S("https://schema.org/NewCondition"))>>,
            <<"availability",
              AvailabilityUrl(Get(data, "availability", Str(S("In Stock"))))>>,
            <<"seller", IdRef(org_id)>> >>
            \o Opt(GetN(data, "shipping_rate") # None, "shippingDetails",
                   MkDict(<<
                     <<"@type", Str(S("OfferShippingDetails"))>>,
                     <<"shippingRate", MkDict(<<
                         <<"@type", Str(S("MonetaryAmount"))>>,
                         <<"value", Get(data, "shipping_rate", Str(S("0")))>>,
                         <<"currency", currency>> >>)>>,
                     <<"shippingDestination", MkDict(<<
                         <<"@type", Str(S("DefinedRegion"))>>,
                         <<"addressCountry", GetS(data, "shipping_country")>> >>)>>,
                     <<"deliveryTime", MkDict(<<
                         <<"@type", Str(S("ShippingDeliveryTime"))>>,
                         <<"handlingTime",
                           DayRange(data, "handling_time_min", 1, "handling_time_max", 3)>>,
                         <<"transitTime",
                           DayRange(data, "transit_time_min", 3, "transit_time_max", 7)>> >>)>> >>))
            \o Opt(Truthy(GetN(data, "return_days")), "hasMerchantReturnPolicy",
                   MkDict(<<
                     <<"@type", Str(S("MerchantReturnPolicy"))>>,
                     <<"applicableCountry", GetS(data, "return_policy_country")>>,
                     <<"returnPolicyCategory",
                       Str(S("https://schema.org/MerchantReturnFiniteReturnWindow"))>>,
                     <<"merchantReturnDays", Get(data, "return_days", IntV(30))>>,
                     <<"returnMethod",
                       Str(S("https://schema.org/")
                           \o Fmt(Get(data, "return_method", Str(S("ReturnByMail")))))>>,
                     <<"returnFees",
                       Str(S("https://schema.org/")
                           \o Fmt(Get(data, "return_fees", Str(S("FreeReturn")))))>> >>))))

\* Lines 17-19 with images.insert(0, data["product_image"]) in the place of
\* "[data["product_image"]] + images": the insertion is made in the list
\* that data holds, when data holds one.
ProductImages_in_place(data) ==
    LET images == GetL(data, "product_images")
        image == GetN(data, "product_image")
    IN  IF Truthy(image) /\ ~(\E i \in DOMAIN images.l : images.l[i] = image)
        THEN [images |-> Lst(<<image>> \o images.l),
              data |-> IF "product_images" \in DOMAIN data.d
                       THEN Dct(("product_images" :> Lst(<<image>> \o images.l))
                                @@ data.d)
                       ELSE data]
        ELSE [images |-> images, data |-> data]

\* Lines 17-19 of generate_product: the local list images, and the facts
\* record once they have run.  "[x] + images" builds a new list, so the list
\* held by data is the one it held before.
ProductImages(data) ==
    LET images == GetL(data, "product_images")
        image == GetN(data, "product_image")
    IN  IF Truthy(image) /\ ~(\E i \in DOMAIN images.l : images.l[i] = image)
        THEN [images |-> Lst(<<image>> \o images.l), data |-> data]
        ELSE [images |-> images, data |-> data]

\* The "review" list of generate_product (lines 62-79).
Reviews(reviews) ==
    LET kept == SelectSeq(reviews.l,
                          LAMBDA r : Truthy(GetN(r, "author")) /\ Truthy(GetN(r, "body")))
    IN  Lst([i \in DOMAIN kept |->
                clean_dict(MkDict(<<
                    <<"@type", Str(S("Review"))>>,
                    <<"author", MkDict(<< <<"@type", Str(S("Person"))>>,
                                          <<"name", GetS(kept[i], "author")>> >>)>>,
                    <<"datePublished", GetS(kept[i], "date")>>,
                    <<"name", GetS(kept[i], "title")>>,
                    <<"reviewBody", GetS(kept[i], "body")>>,
                    <<"reviewRating", MkDict(<<
                        <<"@type", Str(S("Rating"))>>,
                        <<"ratingValue", Get(kept[i], "rating", Str(S("5")))>>,
                        <<"bestRating", Str(S("5"))>>,
                        <<"worstRating", Str(S("1"))>> >>)>> >>))])

\* def generate_product(data)
generate_product(data) ==
    LET base_url == normalize_url(GetS(data, "website_url"))
        product_url == normalize_url(GetS(data, "product_url"))
        org_id == build_id(base_url, S("organization"))
        images == ProductImages(data).images
        offers == _build_offers(data, org_id, product_url)
    IN  clean_dict(MkDict(<<
            <<"@context", make_context>>,
            <<"@type", Str(S("Product"))>>,
            <<"@id", Or(product_url, base_url)>>,
            <<"name", GetS(data, "product_name")>>,
            <<"description", GetS(data, "product_description")>>,
            <<"disambiguatingDescription", GetS(data, "product_disambiguating")>>,
            <<"sku", GetS(data, "sku")>>,
            <<"mpn", GetS(data, "mpn")>>,
            <<"gtin", GetS(data, "gtin")>>,
            <<"gtin13", GetS(data, "gtin13")>>,
            <<"url", product_url>>,
            <<"color", GetS(data, "color")>>,
            <<"material", GetS(data, "material")>>,
            <<"pattern", GetS(data, "pattern")>>,
            <<"category", GetS(data, "category")>>,
            <<"slogan", GetS(data, "product_slogan")>> >>
            \o Opt(Truthy(images), "image",
                   IF Len(images.l) > 1 THEN images ELSE images.l[1])
            \o << <<"brand", IdRef(org_id)>>, <<"manufacturer", IdRef(org_id)>> >>
            \o Opt(Truthy(GetN(data, "is_related_to")), "isRelatedTo",
                   GetN(data, "is_related_to"))
            \o Opt(Truthy(offers), "offers", offers)
            \o Opt(Truthy(GetN(data, "aggregate_rating_value"))
                     /\ Truthy(GetN(data, "aggregate_rating_count")),
                   "aggregateRating",
                   MkDict(<<
                     <<"@type", Str(S("AggregateRating"))>>,
                     <<"ratingValue", GetN(data, "aggregate_rating_value")>>,
                     <<"reviewCount", GetN(data, "aggregate_rating_count")>>,
                     <<"bestRating", Get(data, "best_rating", Str(S("5")))>>,
                     <<"worstRating", Get(data, "worst_rating", Str(S("1")))>> >>))
            \o Opt(Truthy(GetL(data, "reviews")), "review",
                   Reviews(GetL(data, "reviews")))))

(***************************************************************************)
(* saas.py                                                                 *)
(***************************************************************************)
\* The outcome of a call that raised.
Raised == [t |-> "raise"]

\* t.get("price") and str(t["price"]).replace(".", "").isdigit()
PriceCounted(tier) ==
    /\ Truthy(GetN(tier, "price"))
    /\ LET text == RemoveChar(Fmt(GetN(tier, "price")), ".")
       IN  text # <<>> /\ \A i \in DOMAIN text : IsDigit(text[i])

\* The tiers whose price the generator expressions hand to float().
CountedTiers(pricing) == SelectSeq(pricing, PriceCounted)

\* float(t["price"]) raises for one of the counted tiers.
PricesRaise(pricing) ==
    \E i \in DOMAIN CountedTiers(pricing) :
        FloatFails(GetN(CountedTiers(pricing)[i], "price"))

\* [float(t["price"]) for t in the counted tiers], as multiples of 10^-FracDigits
Prices(pricing) ==
    [i \in DOMAIN CountedTiers(pricing) |->
        ToFloat(GetN(CountedTiers(pricing)[i], "price")).m]

\* min(prices) and max(prices) of a non-empty sequence
MinOf(prices) == CHOOSE x \in {prices[i] : i \in DOMAIN prices} :
                    \A i \in DOMAIN prices : x <= prices[i]
MaxOf(prices) == CHOOSE x \in {prices[i] : i \in DOMAIN prices} :
                    \A i \in DOMAIN prices : x >= prices[i]

\* str(x) of a non-negative float x = m / 10^FracDigits
FloatText(m) ==
    LET whole == NatText(m \div (10 ^ FracDigits))
        digits == NatText(m % (10 ^ FracDigits))
        padded == [i \in 1..(FracDigits - Len(digits)) |-> "0"] \o digits
        frac == RStripSet(padded, {"0"})
    IN  whole \o S(".") \o (IF frac = <<>> THEN S("0") ELSE frac)

\* {"@type": "UnitPriceSpecification", ...} of one pricing tier
PriceSpecification(tier, currency) ==
    MkDict(<<
        <<"@type", Str(S("UnitPriceSpecification"))>>,
        <<"price", GetS(tier, "price")>>,
        <<"priceCurrency", currency>>,
        <<"name", GetS(tier, "name")>>,
        <<"referenceQuantity", MkDict(<<
            <<"@type", Str(S("QuantitativeValue"))>>,
            <<"value", Str(S("1"))>>,
            <<"unitCode", Get(tier, "billing_period", Str(S("MON")))>> >>)>> >>)

\* The "offers" pairs of generate_saas_app (lines 35-86); the call has
\* raised by then when PricesRaise holds of two tiers or more.
AppOffers(data, base_url) ==
    LET pricing == GetL(data, "pricing_tiers")
        currency == Get(data, "currency", Str(S("USD")))
        named == SelectSeq(pricing.l, LAMBDA tier : Truthy(GetN(tier, "name")))
        prices == Prices(pricing.l)
    IN  IF ~Truthy(pricing) /\ Truthy(GetN(data, "price"))
        THEN << <<"offers", MkDict(<<
                    <<"@type", Str(S("Offer"))>>,
                    <<"price", Get(data, "price", Str(S("0")))>>,
                    <<"priceCurrency", currency>> >>)>> >>
        ELSE IF ~Truthy(pricing) THEN <<>>
        ELSE IF Len(pricing.l) = 1
        THEN << <<"offers", clean_dict(MkDict(<<
                    <<"@type", Str(S("Offer"))>>,
                    <<"name", GetS(pricing.l[1], "name")>>,
                    <<"price", GetS(pricing.l[1], "price")>>,
                    <<"priceCurrency", currency>>,
                    <<"url", Get(pricing.l[1], "url", base_url)>> >>))>> >>
        ELSE << <<"offers", MkDict(<<
                    <<"@type", Str(S("AggregateOffer"))>>,
                    <<"lowPrice", IF prices = <<>> THEN IntV(0) ELSE Flt(MinOf(prices))>>,
                    <<"highPrice", IF prices = <<>> THEN IntV(0) ELSE Flt(MaxOf(prices))>>,
                    <<"priceCurrency", currency>>,
                    <<"offerCount", IntV(Len(pricing.l))>>,
                    <<"offers", Lst([i \in DOMAIN named |->
                        clean_dict(MkDict(<<
                            <<"@type", Str(S("Offer"))>>,
                            <<"name", GetS(named[i], "name")>>,
                            <<"url", Get(named[i], "url", base_url)>>,
                            <<"price", GetS(named[i], "price")>>,
                            <<"priceCurrency", currency>>,
                            <<"priceSpecification",
                              PriceSpecification(named[i], currency)>> >>))])>> >>)>> >>

\* def generate_saas_app(data)
generate_saas_app(data) ==
    LET base_url == normalize_url(GetS(data, "website_url"))
        app_url == normalize_url(Get(data, "app_url", base_url))
        org_id == build_id(base_url, S("organization"))
        pricing == GetL(data, "pricing_tiers")
    IN  IF Len(pricing.l) > 1 /\ PricesRaise(pricing.l) THEN Raised
        ELSE clean_dict(MkDict(<<
            <<"@context", make_context>>,
            <<"@type", Str(S("WebApplication"))>>,
            <<"@id", build_id(app_url, S("webapp"))>>,
            <<"name", Get(data, "app_name", GetS(data, "business_name"))>>,
            <<"description", Get(data, "app_description", GetS(data, "description"))>>,
            <<"url", app_url>>,
            <<"sameAs", Get(data, "marketing_url", base_url)>>,
            <<"browserRequirements",
              Get(data, "browser_requirements",
                  Str(S("Requires JavaScript. Requires HTML5.")))>>,
            <<"applicationCategory",
              Get(data, "app_category", Str(S("BusinessApplication")))>>,
            <<"applicationSuite", GetS(data, "app_suite")>>,
            <<"operatingSystem", Get(data, "operating_system", Str(S("Web Browser")))>>,
            <<"permissions", GetS(data, "permissions")>>,
            <<"releaseNotes", GetS(data, "release_notes_url")>>,
            <<"provider", IdRef(org_id)>> >>
            \o AppOffers(data, base_url)
            \o << <<"isPartOf", WebSiteRef(base_url)>> >>))

\* The aggregate offer of generate_saas_pricing_page before pruning
\* (lines 117-152).
PricingAggregateOffer(data) ==
    LET base_url == normalize_url(GetS(data, "website_url"))
        pricing_url == normalize_url(Get(data, "pricing_page_url",
                                         Str(base_url.s \o S("/pricing"))))
        org_id == build_id(base_url, S("organization"))
        app_id == build_id(normalize_url(Get(data, "app_url", base_url)), S("webapp"))
        pricing_tiers == GetL(data, "pricing_tiers")
        currency == Get(data, "currency", Str(S("USD")))
        prices == Prices(pricing_tiers.l)
        listed == SelectSeq(pricing_tiers.l,
                            LAMBDA tier : Truthy(GetN(tier, "name"))
                                            /\ Truthy(GetN(tier, "price")))
    IN  MkDict(<<
            <<"@type", Str(S("AggregateOffer"))>>,
            <<"@id", build_id(pricing_url, S("aggregateoffer"))>>,
            <<"url", pricing_url>>,
            <<"lowPrice", IF prices # <<>> THEN Str(FloatText(MinOf(prices)))
                          ELSE EmptyStr>>,
            <<"highPrice", IF prices # <<>> THEN Str(FloatText(MaxOf(prices)))
                           ELSE EmptyStr>>,
            <<"priceCurrency", currency>>,
            <<"offerCount", IntV(Len(pricing_tiers.l))>>,
            <<"offers", Lst([i \in DOMAIN listed |->
                clean_dict(MkDict(<<
                    <<"@type", Str(S("Offer"))>>,
                    <<"name", GetS(listed[i], "name")>>,
                    <<"url", Get(listed[i], "url", pricing_url)>>,
                    <<"description", GetS(listed[i], "description")>>,
                    <<"priceSpecification",
                      PriceSpecification(listed[i], currency)>> >>))])>>,
            <<"category", MkDict(<<
                <<"@type", Str(S("Service"))>>,
                <<"@id", app_id>>,
                <<"name", Get(data, "app_name", GetS(data, "business_name"))>>,
                <<"serviceType", Get(data, "app_category", Str(S("SaaS")))>>,
                <<"provider", IdRef(org_id)>> >>)>> >>)

\* generate_saas_pricing_page that leaves the aggregate offer as built,
\* without clean_dict.
generate_saas_pricing_page_unpruned(data) ==
    LET base_url == normalize_url(GetS(data, "website_url"))
        pricing_url == normalize_url(Get(data, "pricing_page_url",
                                         Str(base_url.s \o S("/pricing"))))
        offer_id == build_id(pricing_url, S("aggregateoffer"))
        webpage ==
            clean_dict(MkDict(<<
                <<"@type", Str(S("WebPage"))>>,
                <<"@id", build_id(pricing_url, S("webpage"))>>,
                <<"url", pricing_url>>,
                <<"name", Get(data, "pricing_page_title",
                              Str(S("Pricing ") \o <<EmDash>> \o S(" ")
                                  \o Fmt(GetS(data, "business_name"))))>>,
                <<"description", GetS(data, "pricing_page_description")>>,
                <<"inLanguage", Get(data, "language", Str(S("en")))>>,
                <<"mainEntity", IdRef(offer_id)>>,
                <<"about", IdRef(offer_id)>>,
                <<"isPartOf", WebSiteRef(base_url)>> >>))
    IN  IF PricesRaise(GetL(data, "pricing_tiers").l) THEN Raised
        ELSE MkDict(<<
                <<"@context", make_context>>,
                <<"@graph", Lst(<<webpage, PricingAggregateOffer(data)>>)>> >>)

\* def generate_saas_pricing_page(data)
generate_saas_pricing_page(data) ==
    LET base_url == normalize_url(GetS(data, "website_url"))
        pricing_url == normalize_url(Get(data, "pricing_page_url",
                                         Str(base_url.s \o S("/pricing"))))
        offer_id == build_id(pricing_url, S("aggregateoffer"))
        webpage ==
            clean_dict(MkDict(<<
                <<"@type", Str(S("WebPage"))>>,
                <<"@id", build_id(pricing_url, S("webpage"))>>,
                <<"url", pricing_url>>,
                <<"name", Get(data, "pricing_page_title",
                              Str(S("Pricing ") \o <<EmDash>> \o S(" ")
                                  \o Fmt(GetS(data, "business_name"))))>>,
                <<"description", GetS(data, "pricing_page_description")>>,
                <<"inLanguage", Get(data, "language", Str(S("en")))>>,
                <<"mainEntity", IdRef(offer_id)>>,
                <<"about", IdRef(offer_id)>>,
                <<"isPartOf", WebSiteRef(base_url)>> >>))
    IN  IF PricesRaise(GetL(data, "pricing_tiers").l) THEN Raised
        ELSE MkDict(<<
                <<"@context", make_context>>,
                <<"@graph", Lst(<<webpage,
                                  clean_dict(PricingAggregateOffer(data))>>)>> >>)

(***************************************************************************)
(* validators/schema_validator.py                                          *)
(* A ValidationIssue is [level, field]; its message is fixed by the field  *)
(* and is left out.                                                        *)
(***************************************************************************)
ValidationIssue(level, field) == [level |-> level, field |-> field]

\* "if cond: issues.append(ValidationIssue(level, field, ...))"
Check(cond, level, field) ==
    IF cond THEN <<ValidationIssue(level, field)>> ELSE <<>>

\* not data.get(k, "").strip()
Blank(data, k) == Strip(GetS(data, k).s) = <<>>

\* any("google.com/maps" in u or "g.page" in u or "business.site" in u ...)
HasGbp(same_as) ==
    \E i \in DOMAIN same_as.l :
        /\ Truthy(same_as.l[i])
        /\ \/ Contains(same_as.l[i].s, S("google.com/maps"))
           \/ Contains(same_as.l[i].s, S("g.page"))
           \/ Contains(same_as.l[i].s, S("business.site"))

\* def validate_business_data(data)
validate_business_data(data) ==
    Check(Blank(data, "business_name"), "error", "business_name")
    \o Check(Blank(data, "website_url"), "error", "website_url")
    \o Check(Blank(data, "description"), "warning", "description")
    \o Check(~Truthy(GetN(data, "same_as")) \/ ~HasGbp(GetL(data, "same_as")),
             "warning", "same_as")
    \o Check(~Truthy(GetN(data, "knows_about"))
                \/ ~(\E i \in DOMAIN GetL(data, "knows_about").l :
                        Truthy(GetN(GetL(data, "knows_about").l[i], "wikidata_id"))),
             "warning", "knows_about")
    \o Check(Blank(data, "logo_url"), "warning", "logo_url")
    \o Check(Blank(data, "image_url"), "warning", "image_url")

\* validate_local_business, were it to return as soon as the business
\* checks have reported an error.
validate_local_business_stops_at_error(data) ==
    LET issues == validate_business_data(data)
    IN  IF \E j \in DOMAIN issues : issues[j].level = "error" THEN issues
        ELSE issues
             \o Check(Blank(data, "telephone"), "error", "telephone")
             \o Check(Blank(data, "street_address") /\ Blank(data, "city"),
                      "error", "address")
             \o Check(Blank(data, "country"), "warning", "country")
             \o Check(~Truthy(GetN(data, "opening_hours")), "warning",
                      "opening_hours")
             \o Check(Blank(data, "has_map"), "warning", "has_map")
             \o Check(~Truthy(GetN(data, "cities"))
                        /\ ~Truthy(GetN(data, "postal_codes")),
                      "warning", "area_served")
             \o Check(Blank(data, "price_range"), "warning", "price_range")

\* def validate_local_business(data)
validate_local_business(data) ==
    validate_business_data(data)
    \o Check(Blank(data, "telephone"), "error", "telephone")
    \o Check(Blank(data, "street_address") /\ Blank(data, "city"), "error", "address")
    \o Check(Blank(data, "country"), "warning", "country")
    \o Check(~Truthy(GetN(data, "opening_hours")), "warning", "opening_hours")
    \o Check(Blank(data, "has_map"), "warning", "has_map")
    \o Check(~Truthy(GetN(data, "cities")) /\ ~Truthy(GetN(data, "postal_codes")),
             "warning", "area_served")
    \o Check(Blank(data, "price_range"), "warning", "price_range")

\* def validate_organization(data)
validate_organization(data) ==
    validate_business_data(data)
    \o Check(Blank(data, "email") /\ Blank(data, "telephone"), "warning", "contact")
    \o Check(Blank(data, "founding_date"), "warning", "founding_date")

\* def validate_person(data)
validate_person(data) ==
    IF Blank(data, "founder_name") /\ Blank(data, "person_name")
    THEN <<ValidationIssue("warning", "founder_name")>>
    ELSE Check(~Truthy(GetN(data, "person_same_as")), "warning", "person_same_as")
         \o Check(~Truthy(GetN(data, "person_knows_about"))
                    /\ ~Truthy(GetN(data, "knows_about")),
                  "warning", "person_knows_about")
         \o Check(Blank(data, "job_title"), "warning", "job_title")

\* def validate_service(data)
validate_service(data) ==
    Check(Blank(data, "service_name"), "error", "service_name")
    \o Check(Blank(data, "service_page_url"), "warning", "service_page_url")
    \o Check(Blank(data, "service_description"), "warning", "service_description")

\* def validate_blog_post(data)
validate_blog_post(data) ==
    Check(Blank(data, "post_title"), "error", "post_title")
    \o Check(Blank(data, "post_url"), "error", "post_url")
    \o Check(Blank(data, "date_published"), "error", "date_published")
    \o Check(Blank(data, "post_image"), "error", "post_image")
    \o Check(Blank(data, "founder_name") /\ Blank(data, "person_name"),
             "warning", "author")
    \o Check(~Truthy(GetN(data, "mentions")), "warning", "mentions")

RECURSIVE QuestionIssues(_, _)
\* The loop of validate_faq over questions from index idx (from 0) on.
QuestionIssues(questions, idx) ==
    IF idx >= Len(questions) THEN <<>>
    ELSE Check(Blank(questions[idx + 1], "question"), "error",
               "questions[" \o ToString(idx) \o "].question")
         \o Check(Blank(questions[idx + 1], "answer"), "error",
                  "questions[" \o ToString(idx) \o "].answer")
         \o QuestionIssues(questions, idx + 1)

\* def validate_faq(data)
validate_faq(data) ==
    IF ~Truthy(GetL(data, "questions"))
    THEN <<ValidationIssue("error", "questions")>>
    ELSE QuestionIssues(GetL(data, "questions").l, 0)

\* def validate_product(data)
validate_product(data) ==
    Check(Blank(data, "product_name"), "error", "product_name")
    \o Check(Blank(data, "product_image") /\ ~Truthy(GetN(data, "product_images")),
             "error", "product_image")
    \o Check(Blank(data, "price"), "error", "price")
    \o Check(Blank(data, "currency"), "error", "currency")
    \o Check(Blank(data, "product_description"), "warning", "product_description")
    \o Check(Blank(data, "sku") /\ Blank(data, "gtin13"), "warning", "sku")
    \o Check(~Truthy(GetN(data, "aggregate_rating_value")), "warning", "aggregate_rating")

\* def validate_saas(data)
validate_saas(data) ==
    Check(Blank(data, "app_name") /\ Blank(data, "business_name"), "error", "app_name")
    \o Check(Blank(data, "app_url") /\ Blank(data, "website_url"), "error", "app_url")
    \o Check(~Truthy(GetN(data, "pricing_tiers")), "warning", "pricing_tiers")
    \o Check(Blank(data, "app_category"), "warning", "app_category")

\* def format_issues_for_display(issues): the fields of the errors and of
\* the warnings, each in order (a message is "**field**: text").
format_issues_for_display(issues) ==
    [errors |-> LET e == SelectSeq(issues, LAMBDA i : i.level = "error")
                IN  [k \in DOMAIN e |-> e[k].field],
     warnings |-> LET w == SelectSeq(issues, LAMBDA i : i.level = "warning")
                  IN  [k \in DOMAIN w |-> w[k].field]]

(***************************************************************************)
(* Inputs of the helper specifications                                     *)
(***************************************************************************)
\* The longest tail of a URL input.
MaxUrlLen == 4
\* The deepest nesting of a clean_dict input.
MaxDepth == 3

RECURSIVE SeqsUpTo(_, _)
\* The sequences over alphabet of length at most n.
SeqsUpTo(alphabet, n) ==
    IF n = 0 THEN {<<>>}
    ELSE LET shorter == SeqsUpTo(alphabet, n - 1)
         IN  shorter \cup {Append(s, c) : s \in shorter, c \in alphabet}

\* URL inputs: an optional scheme, an optional "http" with which a host name
\* may begin (httpbin.org), and a tail of host letters, slashes and blanks.
UrlTails == SeqsUpTo({"a", "/", " "}, MaxUrlLen)
UrlInputs ==
    {None} \cup
    {Str(scheme \o start \o tail) :
        scheme \in {<<>>, S("https://"), S("http://")},
        start \in {<<>>, S("http")},
        tail \in UrlTails}
Fragments == {S("organization"), S("website")}

\* clean_dict inputs: every value nested at most MaxDepth deep that is built
\* from None, strings, numbers, lists and mappings.
CleanAtoms == {None, EmptyStr, Str(S(" ")), Str(S("a")), IntV(1), EmptyList, EmptyDict}
CleanSiblings == {EmptyStr, Str(S("a"))}
Wraps(v) ==
    {Lst(<<v>>), Dct("k" :> v)}
    \cup {Lst(<<v, s>>) : s \in CleanSiblings}
    \cup {Lst(<<s, v>>) : s \in CleanSiblings}
    \cup {Dct("k" :> v @@ "j" :> s) : s \in CleanSiblings}
RECURSIVE NestedValues(_)
NestedValues(depth) ==
    IF depth = 0 THEN CleanAtoms
    ELSE LET inner == NestedValues(depth - 1)
         IN  inner \cup UNION {Wraps(v) : v \in inner}

(***************************************************************************)
(* SpecUrl: normalize_url and build_id applied to one input                *)
(***************************************************************************)
CleanIdle == d = Unset /\ cleaned = Unset /\ recleaned = Unset
UrlIdle == url = Unset /\ fragment = <<>> /\ normalized = Unset /\ identifier = Unset
GenIdle ==
    /\ facts = Unset /\ snapshot = Unset /\ called = "none"
    /\ returned = Unset /\ calls = 0 /\ earlier = Unset

\* Nothing is on the page: no document, no issue line, no download button.
PageBlank ==
    /\ shown = 0
    /\ schemas = EmptyMap /\ all_errors = <<>> /\ all_warnings = <<>>
    /\ failed = <<>> /\ zip_offered = FALSE /\ json_offered = {}
\* No wizard session runs.
AppIdle ==
    /\ step = 0 /\ business_type = "" /\ business_data = Unset
    /\ selected_schemas = <<>> /\ session_lists = Unset /\ customized = 0
    /\ PageBlank

InitUrl ==
    /\ url \in UrlInputs
    /\ fragment \in Fragments
    /\ normalized = Unset
    /\ identifier = Unset
    /\ CleanIdle /\ GenIdle /\ AppIdle

CallNormalizeUrl ==
    /\ url # Unset
    /\ normalized = Unset /\ identifier = Unset
    /\ normalized' = normalize_url(url)
    /\ UNCHANGED <<url, fragment, identifier, cleanVars, genVars, appVars>>

CallBuildId ==
    /\ url # Unset
    /\ normalized = Unset /\ identifier = Unset
    /\ identifier' = build_id(url, fragment)
    /\ UNCHANGED <<url, fragment, normalized, cleanVars, genVars, appVars>>

NextUrl == CallNormalizeUrl \/ CallBuildId

SpecUrl == InitUrl /\ [][NextUrl]_vars

(***************************************************************************)
(* SpecClean: clean_dict applied to one input, and to its own result       *)
(***************************************************************************)
InitClean ==
    /\ d \in NestedValues(MaxDepth)
    /\ cleaned = Unset
    /\ recleaned = Unset
    /\ UrlIdle /\ GenIdle /\ AppIdle

CallCleanDict ==
    /\ d # Unset
    /\ cleaned = Unset
    /\ cleaned' = clean_dict(d)
    /\ UNCHANGED <<d, recleaned, urlVars, genVars, appVars>>

CallCleanDictAgain ==
    /\ cleaned # Unset
    /\ recleaned = Unset
    /\ recleaned' = clean_dict(cleaned)
    /\ UNCHANGED <<d, cleaned, urlVars, genVars, appVars>>

NextClean == CallCleanDict \/ CallCleanDictAgain

SpecClean == InitClean /\ [][NextClean]_vars

(***************************************************************************)
(* Inputs of the generator specification: facts records                    *)
(***************************************************************************)
\* Every field a generator, builder or validator reads, with a value the
\* wizard's forms can give it.  List fields hold blank members too.
FieldNames ==
    {"website_url", "business_name", "legal_name", "alternate_name",
     "description", "disambiguating_description", "slogan", "founding_date",
     "founding_location", "email", "telephone", "additional_types",
     "logo_url", "image_url", "knows_about", "same_as", "founder_name",
     "parent_organization", "postal_codes", "cities", "country",
     "area_served_name", "aggregate_rating_value", "aggregate_rating_count",
     "schema_subtype", "price_range", "payment_accepted",
     "currencies_accepted", "has_map", "street_address", "city", "state",
     "postal_code", "latitude", "longitude", "service_radius",
     "opening_hours", "services", "special_offers", "language",
     "enable_search_action", "page_title", "page_description",
     "related_links", "significant_links", "person_same_as",
     "person_knows_about", "job_title", "job_title_same_as",
     "about_page_url", "person_name", "person_description", "person_email",
     "person_telephone", "person_image", "alumni_of", "alumni_of_url",
     "has_credential", "knows_language", "about_page_title",
     "about_page_description", "contact_page_url", "contact_page_title",
     "contact_page_description", "person_alternate_name", "person_url",
     "gender", "nationality", "birth_date", "birth_place", "member_of",
     "award", "service_page_url", "service_name", "service_description",
     "service_type", "service_audience", "service_additional_type",
     "sub_services", "service_page_title", "service_page_description",
     "services_page_url", "services_page_title",
     "services_page_description", "service_categories", "faq_page_url",
     "faq_page_title", "faq_page_description", "questions", "post_url",
     "post_title", "post_description", "article_body", "keywords",
     "date_published", "date_modified", "reviewed_by_name",
     "reviewed_by_title", "post_image", "mentions", "word_count",
     "article_section", "current_page_url", "breadcrumb_items",
     "product_url", "product_images", "product_image", "product_name",
     "product_description", "product_disambiguating", "sku", "mpn", "gtin",
     "gtin13", "color", "material", "pattern", "category", "product_slogan",
     "is_related_to", "price", "currency", "price_valid_until",
     "availability", "shipping_rate", "shipping_country",
     "handling_time_min", "handling_time_max", "transit_time_min",
     "transit_time_max", "return_days", "return_policy_country",
     "return_method", "return_fees", "best_rating", "worst_rating",
     "reviews", "app_url", "app_name", "app_description", "marketing_url",
     "browser_requirements", "app_category", "app_suite",
     "operating_system", "permissions", "release_notes_url",
     "pricing_tiers", "pricing_page_url", "pricing_page_title",
     "pricing_page_description"}

\* The value a field has when the record has the field.
FieldValue(k) ==
    CASE k = "website_url" ->
            Str(S("a.io/"))
      [] k = "business_name" ->
            Str(S("Acme Co"))
      [] k = "legal_name" ->
            Str(S("Acme LLC"))
      [] k = "alternate_name" ->
            Str(S("AC"))
      [] k = "description" ->
            Str(S("desc"))
      [] k = "disambiguating_description" ->
            Str(S("dis"))
      [] k = "slogan" ->
            Str(S("slo"))
      [] k = "founding_date" ->
            Str(S("2001"))
      [] k = "founding_location" ->
            Str(S("Reno"))
      [] k = "email" ->
            Str(S("a@a.io"))
      [] k = "telephone" ->
            Str(S("555"))
      [] k = "additional_types" ->
            Lst(<<Str(S("w/P")), EmptyStr>>)
      [] k = "logo_url" ->
            Str(S("http://a.io/l"))
      [] k = "image_url" ->
            Str(S("a.io/i"))
      [] k = "knows_about" ->
            Lst(<<Dct("name" :> Str(S("Pipes")) @@
              "wikipedia_url" :> Str(S("w/Pipe"))), Dct("name" :> EmptyStr)>>)
      [] k = "same_as" ->
            Lst(<<Str(S("fb/a")), EmptyStr, Str(S("FILL-IN: x"))>>)
      [] k = "founder_name" ->
            Str(S("Ann"))
      [] k = "parent_organization" ->
            Str(S("Mega"))
      [] k = "postal_codes" ->
            Lst(<<Str(S("89501"))>>)
      [] k = "cities" ->
            Lst(<<Str(S("Reno")), Str(S("Area 51")), Str(S("Acme Hill")),
              Str(S(" "))>>)
      [] k = "country" ->
            Str(S("US"))
      [] k = "area_served_name" ->
            Str(S("NV"))
      [] k = "aggregate_rating_value" ->
            Str(S("4.5"))
      [] k = "aggregate_rating_count" ->
            Str(S("1,203"))
      [] k = "schema_subtype" ->
            Str(S("Plumber"))
      [] k = "price_range" ->
            Str(S("$$"))
      [] k = "payment_accepted" ->
            Str(S("Cash"))
      [] k = "currencies_accepted" ->
            Str(S("USD"))
      [] k = "has_map" ->
            Str(S("maps/x"))
      [] k = "street_address" ->
            Str(S("1 Main"))
      [] k = "city" ->
            Str(S("Reno"))
      [] k = "state" ->
            Str(S("NV"))
      [] k = "postal_code" ->
            Str(S("89501"))
      [] k = "latitude" ->
            Str(S("39.5"))
      [] k = "longitude" ->
            Str(S("-119.8"))
      [] k = "service_radius" ->
            Str(S("50"))
      [] k = "opening_hours" ->
            Lst(<<Dct("day" :> Str(S("Mon")) @@
              "opens" :> Str(S("00:00")) @@ "closes" :> Str(S("23:59"))),
              Dct("day" :> EmptyStr), Dct("day" :> Str(S("Tue")))>>)
      [] k = "services" ->
            Lst(<<Dct("name" :> Str(S("Drains in Reno")) @@
              "url" :> Str(S("a.io/d/")) @@ "description" :> Str(S(" ")) @@
              "audience" :> Str(S("Homes"))), Dct("name" :> EmptyStr @@
              "url" :> EmptyStr), Dct("name" :> Str(S("Old")) @@
              "url" :> Str(S("a.io/x-old")))>>)
      [] k = "special_offers" ->
            Lst(<<Dct("name" :> Str(S("Free")) @@
              "description" :> EmptyStr), Dct("name" :> EmptyStr)>>)
      [] k = "language" ->
            Str(S("es"))
      [] k = "enable_search_action" ->
            Bool(TRUE)
      [] k = "page_title" ->
            Str(S("Home"))
      [] k = "page_description" ->
            Str(S("Hi"))
      [] k = "related_links" ->
            Lst(<<Str(S("a.io/r")), EmptyStr>>)
      [] k = "significant_links" ->
            Lst(<<Str(S("a.io/s"))>>)
      [] k = "person_same_as" ->
            Lst(<<Str(S("li/ann"))>>)
      [] k = "person_knows_about" ->
            Lst(<<Dct("name" :> Str(S("Taps")))>>)
      [] k = "job_title" ->
            Str(S("CEO"))
      [] k = "job_title_same_as" ->
            Str(S("w/CEO"))
      [] k = "about_page_url" ->
            Str(S("a.io/us/"))
      [] k = "person_name" ->
            Str(S("Bo"))
      [] k = "person_description" ->
            Str(S("Boss"))
      [] k = "person_email" ->
            Str(S("b@a.io"))
      [] k = "person_telephone" ->
            Str(S("556"))
      [] k = "person_image" ->
            Str(S("a.io/b"))
      [] k = "alumni_of" ->
            Str(S("MIT"))
      [] k = "alumni_of_url" ->
            Str(S("mit.edu"))
      [] k = "has_credential" ->
            Str(S("PE"))
      [] k = "knows_language" ->
            Str(S("en"))
      [] k = "about_page_title" ->
            Str(S("Us"))
      [] k = "about_page_description" ->
            Str(S("About"))
      [] k = "contact_page_url" ->
            Str(S("a.io/c"))
      [] k = "contact_page_title" ->
            Str(S("Call"))
      [] k = "contact_page_description" ->
            Str(S("Reach"))
      [] k = "person_alternate_name" ->
            Str(S("B"))
      [] k = "person_url" ->
            Str(S("bo.me"))
      [] k = "gender" ->
            Str(S("F"))
      [] k = "nationality" ->
            Str(S("US"))
      [] k = "birth_date" ->
            Str(S("1970"))
      [] k = "birth_place" ->
            Str(S("Reno"))
      [] k = "member_of" ->
            Str(S("Guild"))
      [] k = "award" ->
            Str(S("Best"))
      [] k = "service_page_url" ->
            Str(S("a.io/d"))
      [] k = "service_name" ->
            Str(S("Drain Fix"))
      [] k = "service_description" ->
            Str(S("We fix"))
      [] k = "service_type" ->
            Str(S("Drains"))
      [] k = "service_audience" ->
            Str(S("Homes"))
      [] k = "service_additional_type" ->
            Str(S("w/D"))
      [] k = "sub_services" ->
            Lst(<<Dct("name" :> Str(S("Snake")) @@
              "url" :> EmptyStr @@ "audience" :> Str(S(" "))),
              Dct("name" :> EmptyStr)>>)
      [] k = "service_page_title" ->
            Str(S("Drain"))
      [] k = "service_page_description" ->
            Str(S("Dd"))
      [] k = "services_page_url" ->
            Str(S("a.io/s/"))
      [] k = "services_page_title" ->
            Str(S("All"))
      [] k = "services_page_description" ->
            Str(S("Sd"))
      [] k = "service_categories" ->
            Lst(<<Dct("name" :> Str(S("Drains")) @@
              "url" :> EmptyStr @@ "description" :> EmptyStr @@
              "services" :> Lst(<<Dct("name" :> Str(S("Snake"))),
              Dct("name" :> EmptyStr)>>)), Dct("services" :> EmptyList)>>)
      [] k = "faq_page_url" ->
            Str(S("a.io/f/"))
      [] k = "faq_page_title" ->
            Str(S("FAQ"))
      [] k = "faq_page_description" ->
            Str(S("Qs"))
      [] k = "questions" ->
            Lst(<<Dct("question" :> Str(S("Why?")) @@
              "answer" :> Str(S("ab ab")) @@
              "answer_links" :> Lst(<<Dct("anchor_text" :> Str(S("ab")) @@
              "url" :> Str(S("u")))>>) @@
              "mentions" :> Lst(<<Dct("name" :> Str(S("Pipe")) @@
              "wikidata_id" :> EmptyStr @@ "wikipedia_url" :> Str(S(" "))),
              Dct("name" :> EmptyStr)>>)), Dct("question" :> EmptyStr @@
              "answer" :> Str(S("x"))), Dct("question" :> Str(S(" ")) @@
              "answer" :> Str(S(" ")))>>)
      [] k = "post_url" ->
            Str(S("a.io/p/"))
      [] k = "post_title" ->
            Str(S("Post"))
      [] k = "post_description" ->
            Str(S("Pd"))
      [] k = "article_body" ->
            Str(S("Body"))
      [] k = "keywords" ->
            Str(S("k"))
      [] k = "date_published" ->
            Str(S("2024"))
      [] k = "date_modified" ->
            Str(S("2025"))
      [] k = "reviewed_by_name" ->
            Str(S("Cy"))
      [] k = "reviewed_by_title" ->
            Str(S("Dr"))
      [] k = "post_image" ->
            Str(S("a.io/pi"))
      [] k = "mentions" ->
            Lst(<<Dct("name" :> Str(S("Tap")) @@
              "type" :> Str(S("Product")) @@ "wikidata_id" :> EmptyStr),
              Dct("name" :> EmptyStr)>>)
      [] k = "word_count" ->
            IntV(120)
      [] k = "article_section" ->
            Str(S("News"))
      [] k = "current_page_url" ->
            Str(S("a.io/x/"))
      [] k = "breadcrumb_items" ->
            Lst(<<Dct("name" :> Str(S("Home")) @@
              "url" :> Str(S("a.io"))), Dct("name" :> EmptyStr @@
              "url" :> Str(S("z"))), Dct("name" :> Str(S("X")))>>)
      [] k = "product_url" ->
            Str(S("a.io/w"))
      [] k = "product_images" ->
            Lst(<<Str(S("a.io/1")), EmptyStr>>)
      [] k = "product_image" ->
            Str(S("a.io/0"))
      [] k = "product_name" ->
            Str(S("Wrench"))
      [] k = "product_description" ->
            Str(S("Tool"))
      [] k = "product_disambiguating" ->
            Str(S("pd"))
      [] k = "sku" ->
            Str(S("S1"))
      [] k = "mpn" ->
            Str(S("M1"))
      [] k = "gtin" ->
            Str(S("G1"))
      [] k = "gtin13" ->
            Str(S("G13"))
      [] k = "color" ->
            Str(S("red"))
      [] k = "material" ->
            Str(S("steel"))
      [] k = "pattern" ->
            Str(S("plain"))
      [] k = "category" ->
            Str(S("Tools"))
      [] k = "product_slogan" ->
            Str(S("Grip"))
      [] k = "is_related_to" ->
            Str(S("a.io/w2"))
      [] k = "price" ->
            Str(S("9.5"))
      [] k = "currency" ->
            Str(S("EUR"))
      [] k = "price_valid_until" ->
            Str(S("2030"))
      [] k = "availability" ->
            Str(S("Pre-order"))
      [] k = "shipping_rate" ->
            Str(S("0"))
      [] k = "shipping_country" ->
            Str(S("US"))
      [] k = "handling_time_min" ->
            IntV(2)
      [] k = "handling_time_max" ->
            IntV(4)
      [] k = "transit_time_min" ->
            IntV(1)
      [] k = "transit_time_max" ->
            IntV(2)
      [] k = "return_days" ->
            IntV(14)
      [] k = "return_policy_country" ->
            Str(S("US"))
      [] k = "return_method" ->
            Str(S("ReturnInStore"))
      [] k = "return_fees" ->
            Str(S("RestockingFee"))
      [] k = "best_rating" ->
            Str(S("10"))
      [] k = "worst_rating" ->
            Str(S("0"))
      [] k = "reviews" ->
            Lst(<<Dct("author" :> Str(S("Di")) @@
              "body" :> Str(S("Good")) @@ "title" :> Str(S(" ")) @@
              "rating" :> Str(S("4"))), Dct("author" :> EmptyStr @@
              "body" :> Str(S("x")))>>)
      [] k = "app_url" ->
            Str(S("app.a.io/"))
      [] k = "app_name" ->
            Str(S("App"))
      [] k = "app_description" ->
            Str(S("Ad"))
      [] k = "marketing_url" ->
            Str(S("a.io/app"))
      [] k = "browser_requirements" ->
            Str(S("JS"))
      [] k = "app_category" ->
            Str(S("Biz"))
      [] k = "app_suite" ->
            Str(S("Suite"))
      [] k = "operating_system" ->
            Str(S("Any"))
      [] k = "permissions" ->
            Str(S("none"))
      [] k = "release_notes_url" ->
            Str(S("a.io/rn"))
      [] k = "pricing_tiers" ->
            Lst(<<Dct("name" :> Str(S("Free")) @@
              "price" :> Str(S("0"))), Dct("name" :> Str(S("Pro")) @@
              "price" :> Str(S("9.5")) @@ "billing_period" :> Str(S("ANN"))),
              Dct("name" :> EmptyStr @@ "price" :> Str(S("3"))),
              Dct("name" :> Str(S("Ent")) @@ "price" :> Str(S("ask")))>>)
      [] k = "pricing_page_url" ->
            Str(S("a.io/$/"))
      [] k = "pricing_page_title" ->
            Str(S("Plans"))
      [] k = "pricing_page_description" ->
            Str(S("Pp"))


\* The record that has exactly the fields ks, each with its value.
RecordOf(ks) == Dct([k \in ks |-> FieldValue(k)])

\* rec without the field k.
Without(rec, k) == Dct([j \in DOMAIN rec.d \ {k} |-> rec.d[j]])

\* rec with the field k left blank: "" in a text widget, [] for a list.
Blanked(rec, k) ==
    Dct([j \in DOMAIN rec.d |->
            IF j # k THEN rec.d[j]
            ELSE IF rec.d[j].t = "list" THEN EmptyList ELSE EmptyStr])

\* rec with the field k set to v.
With(rec, k, v) == Dct((k :> v) @@ rec.d)

\* The fields of the record that exercises every generator at once.
RichFields ==
    {"website_url", "business_name", "description", "telephone", "email",
     "logo_url", "knows_about", "same_as", "founder_name", "postal_codes",
     "cities", "country", "aggregate_rating_value", "aggregate_rating_count",
     "schema_subtype", "city", "latitude", "longitude", "service_radius",
     "opening_hours", "services", "special_offers", "language",
     "related_links", "person_knows_about", "job_title", "alumni_of",
     "service_name", "sub_services", "service_categories", "questions",
     "post_url", "post_image", "mentions", "breadcrumb_items",
     "product_images", "product_image", "price", "shipping_rate",
     "return_days", "reviews", "pricing_tiers", "additional_types"}
Rich == RecordOf(RichFields)

\* Website URLs as typed: with and without scheme and trailing slash, with
\* blanks, blank, and a host name that begins with "http".
WebsiteUrls ==
    {EmptyStr, Str(S(" ")), Str(S("a.io")), Str(S("a.io/")), Str(S("a.io /")),
     Str(S(" https://a.io/ ")), Str(S("http://a.io//")), Str(S("httpa.io"))}

\* Lists of pricing tiers: none, one, several; prices that are numbers,
\* that are not, and that look like numbers to isdigit() but not to float().
PricingTiers ==
    {EmptyList,
     Lst(<<Dct("name" :> Str(S("Pro")) @@ "price" :> Str(S("1.2.3")))>>),
     Lst(<<Dct("name" :> Str(S("Pro")) @@ "price" :> Str(S("9.5"))),
           Dct("name" :> Str(S("Max")) @@ "price" :> Str(S("1.2.3")))>>),
     Lst(<<Dct("name" :> Str(S("Pro")) @@ "price" :> Str(S("ask"))),
           Dct("name" :> EmptyStr @@ "price" :> EmptyStr)>>),
     Lst(<<Dct("name" :> Str(S("Pro")) @@ "price" :> Str(S("20"))),
           Dct("price" :> Str(S("7")))>>)}

\* The field k absent, or present with one of vals.
OptField(k, vals) == {EmptyMap} \cup {k :> v : v \in vals}

\* Records of the fields the validators' error checks read, absent, blank
\* or filled: the name and URL of an application beside those of its
\* business, the images and currency of a named and priced product, the
\* title and URL of a dated post with an image, the phone and address of
\* a named local business, the name and page title of a service.
RequiredInputs ==
    {Dct(a @@ c @@ "business_name" :> Str(S("Acme")) @@ "website_url" :> Str(S("a.io"))) :
        a \in OptField("app_name", {EmptyStr, Str(S("App"))}),
        c \in OptField("app_url", {EmptyStr, Str(S("a.io/app"))})}
    \cup {Dct(b @@ c @@ f @@ "product_name" :> Str(S("Mug")) @@ "price" :> Str(S("9"))) :
        b \in OptField("product_image", {Str(S("a.io/m.png"))}),
        c \in OptField("product_images", {Lst(<<EmptyStr>>), Lst(<<Str(S("a.io/n.png"))>>)}),
        f \in {"currency" :> EmptyStr, "currency" :> Str(S("USD"))}}
    \cup {Dct(a @@ b @@ "date_published" :> Str(S("2024-01-01"))
                 @@ "post_image" :> Str(S("a.io/p.png"))) :
        a \in OptField("post_title", {Str(S("Post"))}),
        b \in OptField("post_url", {Str(S(" ")), Str(S("a.io/p"))})}
    \cup {Dct(c @@ e @@ f @@ "business_name" :> Str(S("Acme")) @@ "website_url" :> Str(S("a.io"))) :
        c \in OptField("telephone", {Str(S(" ")), Str(S("555"))}),
        e \in OptField("street_address", {Str(S("1 Main St"))}),
        f \in OptField("city", {Str(S("Reno"))})}
    \cup {Dct(a @@ b) :
        a \in OptField("service_name", {Str(S(" ")), Str(S("Drains"))}),
        b \in OptField("service_page_title", {EmptyStr, Str(S("Our drains"))})}

\* The facts records a call is made on.
FactsInputs ==
    {EmptyDict, Rich}
    \cup RequiredInputs
    \cup {RecordOf({k}) : k \in FieldNames}
    \cup {Without(Rich, k) : k \in RichFields}
    \cup {Blanked(Rich, k) : k \in RichFields}
    \cup {With(RecordOf({"business_name", "founder_name"}), "website_url", u) :
            u \in WebsiteUrls}
    \cup {With(RecordOf({"website_url", "app_name"}), "pricing_tiers", tiers) :
            tiers \in PricingTiers}
    \cup {With(RecordOf({"business_name", "telephone", "city", "country"}),
                "website_url", u) : u \in WebsiteUrls}

(***************************************************************************)
(* SpecGen: generators, builders and validators called on one facts record *)
(***************************************************************************)
\* The most calls made on one record.
MaxCalls == 2

\* The result of a validator call: its list of issues.
Issues(l) == [t |-> "issues", l |-> l]

Generators ==
    {"generate_organization", "generate_local_business", "generate_person",
     "generate_website", "generate_webpage", "generate_homepage",
     "generate_about_page", "generate_contact_page", "generate_service_page",
     "generate_multi_service_page", "generate_product", "generate_faq",
     "generate_faq_nested_in_page", "generate_blog_post", "generate_breadcrumb",
     "generate_saas_app", "generate_saas_pricing_page"}

InitGen ==
    /\ facts \in FactsInputs
    /\ snapshot = facts
    /\ called = "none"
    /\ returned = Unset
    /\ calls = 0
    /\ earlier = Unset
    /\ UrlIdle /\ CleanIdle /\ AppIdle

\* One call of the function name on the record: result is what it returns
\* and after is the record once it has returned.  A record is called on
\* MaxCalls times at most, each time by the same function.
CallOn(name, result, after) ==
    /\ facts # Unset
    /\ calls < MaxCalls
    /\ calls > 0 => called = name
    /\ called' = name
    /\ earlier' = returned
    /\ returned' = result
    /\ facts' = after
    /\ calls' = calls + 1
    /\ UNCHANGED <<snapshot, urlVars, cleanVars, appVars>>

\* Two generators build lists from lists of the record (ProductImages,
\* AddTypes); every other function only reads the record, through .get and
\* indexing.  generate_person is called as the wizard calls it,
\* generate_webpage with its default arguments, generate_faq_nested_in_page
\* for the page at the website URL.
GenerateOrganization ==
    CallOn("generate_organization", generate_organization(facts), facts)
GenerateLocalBusiness ==
    CallOn("generate_local_business", generate_local_business(facts),
           AddTypes(facts).data)
GeneratePerson ==
    CallOn("generate_person",
           generate_person(facts, GetS(facts, "website_url")), facts)
GenerateWebsite ==
    CallOn("generate_website", generate_website(facts), facts)
GenerateWebpage ==
    CallOn("generate_webpage",
           generate_webpage(facts, EmptyStr, Str(S("WebPage"))), facts)
GenerateHomepage ==
    CallOn("generate_homepage", generate_homepage(facts), facts)
GenerateAboutPage ==
    CallOn("generate_about_page", generate_about_page(facts), facts)
GenerateContactPage ==
    CallOn("generate_contact_page", generate_contact_page(facts), facts)
GenerateServicePage ==
    CallOn("generate_service_page", generate_service_page(facts), facts)
GenerateMultiServicePage ==
    CallOn("generate_multi_service_page", generate_multi_service_page(facts),
           facts)
GenerateProduct ==
    CallOn("generate_product", generate_product(facts),
           ProductImages(facts).data)
GenerateFaq ==
    CallOn("generate_faq", generate_faq(facts), facts)
GenerateFaqNestedInPage ==
    CallOn("generate_faq_nested_in_page",
           generate_faq_nested_in_page(facts, GetS(facts, "website_url")),
           facts)
GenerateBlogPost ==
    CallOn("generate_blog_post", generate_blog_post(facts), facts)
GenerateBreadcrumb ==
    CallOn("generate_breadcrumb", generate_breadcrumb(facts), facts)
GenerateSaasApp ==
    CallOn("generate_saas_app", generate_saas_app(facts), facts)
GenerateSaasPricingPage ==
    CallOn("generate_saas_pricing_page", generate_saas_pricing_page(facts),
           facts)
MakePostalAddress ==
    CallOn("make_postal_address", make_postal_address(facts), facts)
MakeAreaServed ==
    CallOn("make_area_served", make_area_served(facts), facts)
MakeAggregateRating ==
    CallOn("make_aggregate_rating", make_aggregate_rating(facts), facts)
MakeServiceArea ==
    CallOn("make_service_area", make_service_area(facts), facts)
ValidateBusinessData ==
    CallOn("validate_business_data", Issues(validate_business_data(facts)),
           facts)
ValidateLocalBusiness ==
    CallOn("validate_local_business", Issues(validate_local_business(facts)),
           facts)
ValidateOrganization ==
    CallOn("validate_organization", Issues(validate_organization(facts)),
           facts)
ValidatePerson ==
    CallOn("validate_person", Issues(validate_person(facts)), facts)
ValidateService ==
    CallOn("validate_service", Issues(validate_service(facts)), facts)
ValidateBlogPost ==
    CallOn("validate_blog_post", Issues(validate_blog_post(facts)), facts)
ValidateFaq ==
    CallOn("validate_faq", Issues(validate_faq(facts)), facts)
ValidateProduct ==
    CallOn("validate_product", Issues(validate_product(facts)), facts)
ValidateSaas ==
    CallOn("validate_saas", Issues(validate_saas(facts)), facts)

NextGen ==
    \/ GenerateOrganization \/ GenerateLocalBusiness \/ GeneratePerson
    \/ GenerateWebsite \/ GenerateWebpage \/ GenerateHomepage
    \/ GenerateAboutPage \/ GenerateContactPage \/ GenerateServicePage
    \/ GenerateMultiServicePage \/ GenerateProduct \/ GenerateFaq
    \/ GenerateFaqNestedInPage \/ GenerateBlogPost \/ GenerateBreadcrumb
    \/ GenerateSaasApp \/ GenerateSaasPricingPage
    \/ MakePostalAddress \/ MakeAreaServed \/ MakeAggregateRating
    \/ MakeServiceArea
    \/ ValidateBusinessData \/ ValidateLocalBusiness \/ ValidateOrganization
    \/ ValidatePerson \/ ValidateService \/ ValidateBlogPost \/ ValidateFaq
    \/ ValidateProduct \/ ValidateSaas

SpecGen == InitGen /\ [][NextGen]_vars

(***************************************************************************)
(* Claims about normalize_url and build_id (SpecUrl)                       *)
(***************************************************************************)
\* s is a host name: one or more letters, no slash, blank or colon.
IsHost(s) == s # <<>> /\ \A i \in DOMAIN s : s[i] \in {"a", "h", "t", "p"}

\* The host h of an input of one of the forms h, "https://" + h and
\* "https://" + h + "/".
HostOfForm(s) ==
    IF StartsWith(s, S("https://"))
    THEN LET rest == SubSeq(s, 9, Len(s))
         IN  IF EndsWith(rest, S("/")) THEN SubSeq(rest, 1, Len(rest) - 1) ELSE rest
    ELSE s

\* C2: for a host h and a fragment f, build_id(h, f), build_id("https://" + h, f)
\* and build_id("https://" + h + "/", f) all equal "https://" + h + "/#" + f.
C2_SchemeSlashInvariance ==
    (identifier # Unset /\ url.t = "str" /\ IsHost(HostOfForm(url.s)))
        => identifier = Str(S("https://") \o HostOfForm(url.s) \o S("/#") \o fragment)

\* n slashes
Slashes(n) == [i \in 1..n |-> "/"]

\* t is s without its surrounding whitespace.
IsTrimOf(t, s) ==
    /\ \E a \in 0..Len(s) : \E b \in 0..(Len(s) - a) :
          /\ \A i \in 1..a : s[i] \in Whitespace
          /\ \A i \in (Len(s) - b + 1)..Len(s) : s[i] \in Whitespace
          /\ t = SubSeq(s, a + 1, Len(s) - b)
    /\ (t # <<>> => (t[1] \notin Whitespace /\ t[Len(t)] \notin Whitespace))

\* The trims of s (one, by IsTrimOf): the infixes of s that IsTrimOf accepts.
TrimsOf(s) ==
    {t \in {SubSeq(s, i, j) : i \in 1..(Len(s) + 1), j \in 0..Len(s)} : IsTrimOf(t, s)}

C4_CleanDictIdempotent ==
    recleaned # Unset => recleaned = cleaned

\* C4's case: a mapping whose list held a mapping that cleaning emptied has
\* been cleaned twice, and the first cleaning changed it.
C4_Witness ==
    /\ recleaned # Unset
    /\ d.t = "dict" /\ "k" \in DOMAIN d.d
    /\ d.d["k"].t = "list"
    /\ \E i \in DOMAIN d.d["k"].l :
          /\ d.d["k"].l[i].t = "dict"
          /\ d.d["k"].l[i] # EmptyDict
          /\ clean_dict(d.d["k"].l[i]) = EmptyDict
    /\ cleaned # d

RECURSIVE HasEmptyInside(_)
\* v holds, at some depth, None, an empty or whitespace-only string, an empty
\* list or an empty mapping.
HasEmptyInside(v) ==
    CASE v.t = "none" -> TRUE
      [] v.t = "str" -> Strip(v.s) = <<>>
      [] v.t = "list" -> v.l = <<>> \/ \E i \in DOMAIN v.l : HasEmptyInside(v.l[i])
      [] v.t = "dict" -> DOMAIN v.d = {} \/ \E k \in DOMAIN v.d : HasEmptyInside(v.d[k])
      [] OTHER -> FALSE

\* C5: the result of clean_dict contains, at any nesting depth (inside
\* mappings, inside lists, and inside lists nested in lists), no None, no
\* empty or whitespace-only string, no empty list and no empty mapping.
C5_NoEmptyAtAnyDepth ==
    (cleaned # Unset /\ d.t = "dict") =>
        \A k \in DOMAIN cleaned.d : ~HasEmptyInside(cleaned.d[k])

(***************************************************************************)
(* The facts fields each output property is built from                     *)
(* One entry per property of a generator's document: the path of the       *)
(* property in the document (an index into a list is written as a numeral),*)
(* the fields the code reads to give it a value, and whether the code also  *)
(* gives it a value that does not come from those fields: the default of a  *)
(* data.get(field, default), a constant, or an identifier or URL built from *)
(* the base URL, which build_id never leaves empty.  A property that is     *)
(* only assigned under several "if" tests has one entry for each.           *)
(***************************************************************************)
Property(generator, path, fields, default) ==
    [generator |-> generator, path |-> path, fields |-> fields, default |-> default]

\* organization.py: def generate_organization
OrganizationProperties ==
    {Property("generate_organization", e[1], e[2], e[3]) : e \in {
        <<<<"@id">>, {"website_url"}, TRUE>>,
        <<<<"alternateName">>, {"alternate_name"}, FALSE>>,
        <<<<"foundingDate">>, {"founding_date"}, FALSE>>,
        <<<<"foundingLocation">>, {"founding_location"}, FALSE>>,
        <<<<"additionalType">>, {"additional_types"}, FALSE>>,
        <<<<"contactPoint">>, {"telephone", "email"}, FALSE>>,
        <<<<"parentOrganization">>, {"parent_organization"}, FALSE>>,
        <<<<"name">>, {"business_name"}, FALSE>>,
        <<<<"legalName">>, {"legal_name", "business_name"}, FALSE>>,
        <<<<"url">>, {"website_url"}, FALSE>>,
        <<<<"description">>, {"description"}, FALSE>>,
        <<<<"disambiguatingDescription">>,
            {"disambiguating_description"}, FALSE>>,
        <<<<"slogan">>, {"slogan"}, FALSE>>,
        <<<<"email">>, {"email"}, FALSE>>,
        <<<<"telephone">>, {"telephone"}, FALSE>>,
        <<<<"logo">>, {"logo_url"}, FALSE>>,
        <<<<"image">>, {"image_url"}, FALSE>>,
        <<<<"knowsAbout">>, {"knows_about"}, FALSE>>,
        <<<<"sameAs">>, {"same_as"}, FALSE>>,
        <<<<"areaServed">>,
            {"postal_codes", "cities", "country", "area_served_name"}, FALSE>>,
        <<<<"aggregateRating">>, {"aggregate_rating_value"}, FALSE>>,
        <<<<"aggregateRating">>, {"aggregate_rating_count"}, FALSE>>,
        <<<<"founder">>, {"founder_name"}, FALSE>> }}

\* organization.py: def generate_local_business
LocalBusinessProperties ==
    {Property("generate_local_business", e[1], e[2], e[3]) : e \in {
        <<<<"@type">>, {"schema_subtype"}, TRUE>>,
        <<<<"@id">>, {"website_url"}, TRUE>>,
        <<<<"alternateName">>, {"alternate_name"}, FALSE>>,
        <<<<"foundingDate">>, {"founding_date"}, FALSE>>,
        <<<<"foundingLocation">>, {"founding_location"}, FALSE>>,
        <<<<"paymentAccepted">>, {"payment_accepted"}, FALSE>>,
        <<<<"currenciesAccepted">>, {"currencies_accepted"}, FALSE>>,
        <<<<"additionalType">>, {"additional_types"}, TRUE>>,
        <<<<"contactPoint">>, {"telephone", "email"}, FALSE>>,
        <<<<"name">>, {"business_name"}, FALSE>>,
        <<<<"legalName">>, {"legal_name", "business_name"}, FALSE>>,
        <<<<"url">>, {"website_url"}, FALSE>>,
        <<<<"description">>, {"description"}, FALSE>>,
        <<<<"disambiguatingDescription">>,
            {"disambiguating_description"}, FALSE>>,
        <<<<"slogan">>, {"slogan"}, FALSE>>,
        <<<<"email">>, {"email"}, FALSE>>,
        <<<<"telephone">>, {"telephone"}, FALSE>>,
        <<<<"logo">>, {"logo_url"}, FALSE>>,
        <<<<"image">>, {"image_url"}, FALSE>>,
        <<<<"knowsAbout">>, {"knows_about"}, FALSE>>,
        <<<<"sameAs">>, {"same_as"}, FALSE>>,
        <<<<"areaServed">>,
            {"postal_codes", "cities", "country", "area_served_name"}, FALSE>>,
        <<<<"aggregateRating">>, {"aggregate_rating_value"}, FALSE>>,
        <<<<"aggregateRating">>, {"aggregate_rating_count"}, FALSE>>,
        <<<<"founder">>, {"founder_name"}, FALSE>>,
        <<<<"hasMap">>, {"has_map"}, FALSE>>,
        <<<<"address">>,
            {"street_address", "city", "state", "postal_code", "country"},
             FALSE>>,
        <<<<"geo">>, {"latitude"}, FALSE>>,
        <<<<"geo">>, {"longitude"}, FALSE>>,
        <<<<"serviceArea">>, {"latitude"}, FALSE>>,
        <<<<"serviceArea">>, {"longitude"}, FALSE>>,
        <<<<"serviceArea">>, {"service_radius"}, FALSE>>,
        <<<<"openingHoursSpecification">>, {"opening_hours"}, FALSE>>,
        <<<<"hasOfferCatalog">>, {"services"}, FALSE>>,
        <<<<"makesOffer">>, {"special_offers"}, FALSE>>,
        <<<<"priceRange">>, {"price_range"}, FALSE>> }}

\* website.py: def generate_website
WebsiteProperties ==
    {Property("generate_website", e[1], e[2], e[3]) : e \in {
        <<<<"@id">>, {"website_url"}, TRUE>>,
        <<<<"url">>, {"website_url"}, FALSE>>,
        <<<<"name">>, {"business_name"}, FALSE>>,
        <<<<"description">>, {"description"}, FALSE>>,
        <<<<"inLanguage">>, {"language"}, TRUE>>,
        <<<<"publisher">>, {"website_url"}, TRUE>>,
        <<<<"potentialAction">>, {"enable_search_action"}, FALSE>> }}

\* website.py: def generate_webpage
WebpageProperties ==
    {Property("generate_webpage", e[1], e[2], e[3]) : e \in {
        <<<<"@id">>, {"website_url"}, TRUE>>,
        <<<<"url">>, {"website_url"}, FALSE>>,
        <<<<"name">>, {"page_title", "business_name"}, FALSE>>,
        <<<<"description">>, {"page_description", "description"}, FALSE>>,
        <<<<"inLanguage">>, {"language"}, TRUE>>,
        <<<<"isPartOf">>, {"website_url"}, TRUE>>,
        <<<<"about">>, {"website_url"}, TRUE>>,
        <<<<"publisher">>, {"website_url"}, TRUE>>,
        <<<<"relatedLink">>, {"related_links"}, FALSE>>,
        <<<<"significantLink">>, {"significant_links"}, FALSE>> }}

\* website.py: def generate_homepage
HomepageProperties ==
    {Property("generate_homepage", e[1], e[2], e[3]) : e \in {
        <<<<"@id">>, {"website_url"}, TRUE>>,
        <<<<"url">>, {"website_url"}, FALSE>>,
        <<<<"name">>, {"page_title", "business_name"}, FALSE>>,
        <<<<"description">>, {"page_description", "description"}, FALSE>>,
        <<<<"inLanguage">>, {"language"}, TRUE>>,
        <<<<"mainEntity">>, {"website_url"}, TRUE>>,
        <<<<"relatedLink">>, {"related_links"}, FALSE>>,
        <<<<"isPartOf", "@id">>, {"website_url"}, TRUE>>,
        <<<<"isPartOf", "url">>, {"website_url"}, FALSE>>,
        <<<<"isPartOf", "name">>, {"business_name"}, FALSE>>,
        <<<<"isPartOf", "about">>, {"website_url"}, TRUE>>,
        <<<<"isPartOf", "publisher", "@type">>, {"schema_subtype"}, TRUE>>,
        <<<<"isPartOf", "publisher", "@id">>, {"website_url"}, TRUE>>,
        <<<<"isPartOf", "publisher", "additionalType">>,
            {"additional_types"}, FALSE>>,
        <<<<"isPartOf", "publisher", "founder", "sameAs">>,
            {"person_same_as"}, FALSE>>,
        <<<<"isPartOf", "publisher", "founder", "knowsAbout">>,
            {"person_knows_about"}, FALSE>>,
        <<<<"isPartOf", "publisher", "founder", "jobTitle">>,
            {"job_title"}, FALSE>>,
        <<<<"isPartOf", "publisher", "name">>, {"business_name"}, FALSE>>,
        <<<<"isPartOf", "publisher", "legalName">>,
            {"legal_name", "business_name"}, FALSE>>,
        <<<<"isPartOf", "publisher", "url">>, {"website_url"}, FALSE>>,
        <<<<"isPartOf", "publisher", "description">>, {"description"}, FALSE>>,
        <<<<"isPartOf", "publisher", "disambiguatingDescription">>,
            {"disambiguating_description"}, FALSE>>,
        <<<<"isPartOf", "publisher", "slogan">>, {"slogan"}, FALSE>>,
        <<<<"isPartOf", "publisher", "email">>, {"email"}, FALSE>>,
        <<<<"isPartOf", "publisher", "telephone">>, {"telephone"}, FALSE>>,
        <<<<"isPartOf", "publisher", "logo">>, {"logo_url"}, FALSE>>,
        <<<<"isPartOf", "publisher", "image">>, {"image_url"}, FALSE>>,
        <<<<"isPartOf", "publisher", "knowsAbout">>, {"knows_about"}, FALSE>>,
        <<<<"isPartOf", "publisher", "sameAs">>, {"same_as"}, FALSE>>,
        <<<<"isPartOf", "publisher", "areaServed">>,
            {"postal_codes", "cities", "country", "area_served_name"}, FALSE>>,
        <<<<"isPartOf", "publisher", "aggregateRating">>,
            {"aggregate_rating_value"}, FALSE>>,
        <<<<"isPartOf", "publisher", "aggregateRating">>,
            {"aggregate_rating_count"}, FALSE>>,
        <<<<"isPartOf", "publisher", "founder">>, {"founder_name"}, FALSE>>,
        <<<<"isPartOf", "publisher", "hasMap">>, {"has_map"}, FALSE>>,
        <<<<"isPartOf", "publisher", "address">>,
            {"street_address", "city", "state", "postal_code", "country"},
             FALSE>>,
        <<<<"isPartOf", "publisher", "geo">>, {"latitude"}, FALSE>>,
        <<<<"isPartOf", "publisher", "geo">>, {"longitude"}, FALSE>>,
        <<<<"isPartOf", "publisher", "serviceArea">>, {"latitude"}, FALSE>>,
        <<<<"isPartOf", "publisher", "serviceArea">>, {"longitude"}, FALSE>>,
        <<<<"isPartOf", "publisher", "serviceArea">>,
            {"service_radius"}, FALSE>>,
        <<<<"isPartOf", "publisher", "openingHoursSpecification">>,
            {"opening_hours"}, FALSE>>,
        <<<<"isPartOf", "publisher", "hasOfferCatalog">>, {"services"}, FALSE>>,
        <<<<"isPartOf", "publisher", "makesOffer">>,
            {"special_offers"}, FALSE>>,
        <<<<"isPartOf", "publisher", "priceRange">>, {"price_range"}, FALSE>> }}

\* website.py: def generate_about_page
AboutPageProperties ==
    {Property("generate_about_page", e[1], e[2], e[3]) : e \in {
        <<<<"@id">>, {"about_page_url", "website_url"}, TRUE>>,
        <<<<"url">>, {"about_page_url", "website_url"}, TRUE>>,
        <<<<"name">>, {"about_page_title", "business_name"}, TRUE>>,
        <<<<"description">>,
            {"about_page_description", "person_description"}, FALSE>>,
        <<<<"inLanguage">>, {"language"}, TRUE>>,
        <<<<"about">>, {"website_url"}, TRUE>>,
        <<<<"relatedLink">>, {"related_links"}, FALSE>>,
        <<<<"isPartOf", "@id">>, {"website_url"}, TRUE>>,
        <<<<"isPartOf", "url">>, {"website_url"}, FALSE>>,
        <<<<"isPartOf", "publisher">>, {"website_url"}, TRUE>>,
        <<<<"mainEntity", "@id">>, {"website_url"}, TRUE>>,
        <<<<"mainEntity", "name">>, {"founder_name", "person_name"}, FALSE>>,
        <<<<"mainEntity", "url">>, {"about_page_url", "website_url"}, TRUE>>,
        <<<<"mainEntity", "description">>, {"person_description"}, FALSE>>,
        <<<<"mainEntity", "jobTitle">>, {"job_title"}, FALSE>>,
        <<<<"mainEntity", "email">>, {"person_email", "email"}, FALSE>>,
        <<<<"mainEntity", "telephone">>,
            {"person_telephone", "telephone"}, FALSE>>,
        <<<<"mainEntity", "image">>, {"person_image"}, FALSE>>,
        <<<<"mainEntity", "worksFor">>, {"website_url"}, FALSE>>,
        <<<<"mainEntity", "knowsAbout">>,
            {"person_knows_about", "knows_about"}, FALSE>>,
        <<<<"mainEntity", "sameAs">>, {"person_same_as"}, FALSE>>,
        <<<<"mainEntity", "alumniOf">>, {"alumni_of"}, FALSE>>,
        <<<<"mainEntity", "alumniOf", "@id">>, {"alumni_of_url"}, FALSE>>,
        <<<<"mainEntity", "hasCredential">>, {"has_credential"}, FALSE>>,
        <<<<"mainEntity", "knowsLanguage">>, {"knows_language"}, FALSE>> }}

\* website.py: def generate_contact_page
ContactPageProperties ==
    {Property("generate_contact_page", e[1], e[2], e[3]) : e \in {
        <<<<"@id">>, {"contact_page_url", "website_url"}, TRUE>>,
        <<<<"url">>, {"contact_page_url", "website_url"}, TRUE>>,
        <<<<"name">>, {"contact_page_title", "business_name"}, TRUE>>,
        <<<<"description">>, {"contact_page_description"}, FALSE>>,
        <<<<"inLanguage">>, {"language"}, TRUE>>,
        <<<<"about">>, {"website_url"}, TRUE>>,
        <<<<"mainEntity", "@id">>, {"website_url"}, TRUE>>,
        <<<<"mainEntity", "@type">>, {"schema_subtype"}, TRUE>>,
        <<<<"mainEntity", "name">>, {"business_name"}, FALSE>>,
        <<<<"mainEntity", "telephone">>, {"telephone"}, FALSE>>,
        <<<<"mainEntity", "email">>, {"email"}, FALSE>>,
        <<<<"mainEntity", "address">>,
            {"street_address", "city", "state", "postal_code", "country"},
             TRUE>>,
        <<<<"mainEntity", "address", "streetAddress">>,
            {"street_address"}, FALSE>>,
        <<<<"mainEntity", "address", "addressLocality">>, {"city"}, FALSE>>,
        <<<<"mainEntity", "address", "addressRegion">>, {"state"}, FALSE>>,
        <<<<"mainEntity", "address", "postalCode">>, {"postal_code"}, FALSE>>,
        <<<<"mainEntity", "address", "addressCountry">>, {"country"}, FALSE>>,
        <<<<"isPartOf", "@id">>, {"website_url"}, TRUE>>,
        <<<<"isPartOf", "url">>, {"website_url"}, FALSE>>,
        <<<<"isPartOf", "publisher">>, {"website_url"}, TRUE>> }}

\* person.py: def generate_person
PersonProperties ==
    {Property("generate_person", e[1], e[2], e[3]) : e \in {
        <<<<"@id">>, {"website_url"}, TRUE>>,
        <<<<"name">>, {"founder_name", "person_name"}, FALSE>>,
        <<<<"alternateName">>, {"person_alternate_name"}, FALSE>>,
        <<<<"description">>, {"person_description"}, FALSE>>,
        <<<<"url">>, {"person_url", "website_url"}, FALSE>>,
        <<<<"email">>, {"person_email"}, FALSE>>,
        <<<<"telephone">>, {"person_telephone"}, FALSE>>,
        <<<<"jobTitle">>, {"job_title"}, FALSE>>,
        <<<<"jobTitle", "sameAs">>, {"job_title_same_as"}, FALSE>>,
        <<<<"gender">>, {"gender"}, FALSE>>,
        <<<<"nationality">>, {"nationality"}, FALSE>>,
        <<<<"birthDate">>, {"birth_date"}, FALSE>>,
        <<<<"birthPlace">>, {"birth_place"}, FALSE>>,
        <<<<"memberOf">>, {"member_of"}, FALSE>>,
        <<<<"image">>, {"person_image"}, FALSE>>,
        <<<<"worksFor">>, {"website_url"}, FALSE>>,
        <<<<"owns">>, {"website_url"}, FALSE>>,
        <<<<"knowsAbout">>, {"person_knows_about"}, FALSE>>,
        <<<<"knowsLanguage">>, {"knows_language"}, FALSE>>,
        <<<<"alumniOf">>, {"alumni_of"}, FALSE>>,
        <<<<"alumniOf", "@id">>, {"alumni_of_url"}, FALSE>>,
        <<<<"hasCredential">>, {"has_credential"}, FALSE>>,
        <<<<"award">>, {"award"}, FALSE>>,
        <<<<"sameAs">>, {"person_same_as"}, FALSE>>,
        <<<<"address">>,
            {"street_address", "city", "state", "postal_code", "country"},
             FALSE>> }}

\* service.py: def generate_service_page
ServicePageProperties ==
    {Property("generate_service_page", e[1], e[2], e[3]) : e \in {
        <<<<"@id">>, {"service_page_url", "website_url"}, TRUE>>,
        <<<<"url">>, {"service_page_url", "website_url"}, FALSE>>,
        <<<<"name">>, {"service_page_title", "service_name"}, FALSE>>,
        <<<<"description">>,
            {"service_page_description", "service_description"}, FALSE>>,
        <<<<"inLanguage">>, {"language"}, TRUE>>,
        <<<<"isPartOf", "@id">>, {"website_url"}, TRUE>>,
        <<<<"isPartOf", "url">>, {"website_url"}, FALSE>>,
        <<<<"isPartOf", "publisher">>, {"website_url"}, TRUE>>,
        <<<<"mainEntity", "@id">>,
            {"service_page_url", "website_url", "service_name"}, TRUE>>,
        <<<<"mainEntity", "name">>, {"service_name"}, FALSE>>,
        <<<<"mainEntity", "description">>, {"service_description"}, FALSE>>,
        <<<<"mainEntity", "serviceType">>,
            {"service_type", "service_name"}, FALSE>>,
        <<<<"mainEntity", "url">>, {"service_page_url", "website_url"}, FALSE>>,
        <<<<"mainEntity", "audience">>, {"service_audience"}, FALSE>>,
        <<<<"mainEntity", "provider">>, {"website_url"}, TRUE>>,
        <<<<"mainEntity", "brand">>, {"website_url"}, TRUE>>,
        <<<<"mainEntity", "additionalType">>,
            {"service_additional_type"}, FALSE>>,
        <<<<"mainEntity", "areaServed">>,
            {"postal_codes", "cities", "country", "area_served_name"}, FALSE>>,
        <<<<"mainEntity", "hasOfferCatalog">>, {"sub_services"}, FALSE>>,
        <<<<"about", "@id">>,
            {"service_page_url", "website_url", "service_name"}, TRUE>>,
        <<<<"about", "name">>, {"service_name"}, FALSE>>,
        <<<<"about", "description">>, {"service_description"}, FALSE>>,
        <<<<"about", "serviceType">>, {"service_type", "service_name"}, FALSE>>,
        <<<<"about", "url">>, {"service_page_url", "website_url"}, FALSE>>,
        <<<<"about", "audience">>, {"service_audience"}, FALSE>>,
        <<<<"about", "provider">>, {"website_url"}, TRUE>>,
        <<<<"about", "brand">>, {"website_url"}, TRUE>>,
        <<<<"about", "additionalType">>, {"service_additional_type"}, FALSE>>,
        <<<<"about", "areaServed">>,
            {"postal_codes", "cities", "country", "area_served_name"}, FALSE>>,
        <<<<"about", "hasOfferCatalog">>, {"sub_services"}, FALSE>> }}

\* service.py: def generate_multi_service_page
MultiServicePageProperties ==
    {Property("generate_multi_service_page", e[1], e[2], e[3]) : e \in {
        <<<<"@graph", "1", "@id">>,
            {"services_page_url", "website_url"}, TRUE>>,
        <<<<"@graph", "1", "url">>,
            {"services_page_url", "website_url"}, TRUE>>,
        <<<<"@graph", "1", "name">>,
            {"services_page_title", "business_name"}, TRUE>>,
        <<<<"@graph", "1", "description">>,
            {"services_page_description"}, FALSE>>,
        <<<<"@graph", "1", "inLanguage">>, {"language"}, TRUE>>,
        <<<<"@graph", "1", "about">>, {"website_url"}, TRUE>>,
        <<<<"@graph", "1", "isPartOf", "@id">>, {"website_url"}, TRUE>>,
        <<<<"@graph", "1", "isPartOf", "url">>, {"website_url"}, FALSE>>,
        <<<<"@graph", "1", "isPartOf", "publisher">>, {"website_url"}, TRUE>>,
        <<<<"@graph", "2">>, {"service_categories"}, FALSE>> }}

\* faq.py: def generate_faq
FaqProperties ==
    {Property("generate_faq", e[1], e[2], e[3]) : e \in {
        <<<<"@id">>, {"faq_page_url", "website_url"}, TRUE>>,
        <<<<"author">>, {"website_url"}, TRUE>>,
        <<<<"reviewedBy">>,
            {"founder_name", "person_name", "website_url"}, TRUE>>,
        <<<<"reviewedBy", "name">>, {"founder_name", "person_name"}, FALSE>>,
        <<<<"reviewedBy", "@type">>, {"founder_name", "person_name"}, FALSE>>,
        <<<<"mainEntity">>, {"questions"}, FALSE>>,
        <<<<"url">>, {"faq_page_url", "website_url"}, TRUE>>,
        <<<<"name">>, {"faq_page_title", "business_name"}, TRUE>>,
        <<<<"description">>, {"faq_page_description"}, FALSE>>,
        <<<<"inLanguage">>, {"language"}, TRUE>>,
        <<<<"isPartOf", "@id">>, {"faq_page_url", "website_url"}, TRUE>>,
        <<<<"isPartOf", "url">>, {"faq_page_url", "website_url"}, TRUE>>,
        <<<<"isPartOf", "isPartOf", "@id">>, {"website_url"}, TRUE>>,
        <<<<"isPartOf", "isPartOf", "url">>, {"website_url"}, FALSE>>,
        <<<<"isPartOf", "isPartOf", "publisher">>, {"website_url"}, TRUE>> }}

\* faq.py: def generate_faq_nested_in_page
FaqNestedInPageProperties ==
    {Property("generate_faq_nested_in_page", e[1], e[2], e[3]) : e \in {
        <<<<"@graph", "1", "@id">>, {"website_url"}, TRUE>>,
        <<<<"@graph", "1", "url">>, {"website_url"}, FALSE>>,
        <<<<"@graph", "1", "name">>, {"page_title"}, FALSE>>,
        <<<<"@graph", "1", "description">>, {"page_description"}, FALSE>>,
        <<<<"@graph", "1", "inLanguage">>, {"language"}, TRUE>>,
        <<<<"@graph", "1", "isPartOf", "@id">>, {"website_url"}, TRUE>>,
        <<<<"@graph", "1", "isPartOf", "url">>, {"website_url"}, FALSE>>,
        <<<<"@graph", "1", "isPartOf", "publisher">>, {"website_url"}, TRUE>>,
        <<<<"@graph", "2", "@id">>, {"website_url"}, TRUE>>,
        <<<<"@graph", "2", "author">>, {"website_url"}, TRUE>>,
        <<<<"@graph", "2", "reviewedBy">>,
            {"founder_name", "person_name", "website_url"}, TRUE>>,
        <<<<"@graph", "2", "reviewedBy", "name">>,
            {"founder_name", "person_name"}, FALSE>>,
        <<<<"@graph", "2", "mainEntity">>, {"questions"}, FALSE>>,
        <<<<"@graph", "2", "isPartOf">>, {"website_url"}, TRUE>> }}

\* blog.py: def generate_blog_post
BlogPostProperties ==
    {Property("generate_blog_post", e[1], e[2], e[3]) : e \in {
        <<<<"@id">>, {"post_url", "website_url"}, TRUE>>,
        <<<<"url">>, {"post_url"}, FALSE>>,
        <<<<"headline">>, {"post_title"}, FALSE>>,
        <<<<"name">>, {"post_title"}, FALSE>>,
        <<<<"description">>, {"post_description"}, FALSE>>,
        <<<<"articleBody">>, {"article_body"}, FALSE>>,
        <<<<"keywords">>, {"keywords"}, FALSE>>,
        <<<<"datePublished">>, {"date_published"}, FALSE>>,
        <<<<"dateModified">>, {"date_modified", "date_published"}, FALSE>>,
        <<<<"inLanguage">>, {"language"}, TRUE>>,
        <<<<"author">>, {"founder_name", "person_name", "website_url"}, TRUE>>,
        <<<<"author", "name">>, {"founder_name", "person_name"}, FALSE>>,
        <<<<"reviewedBy">>,
            {"reviewed_by_name", "founder_name", "person_name"}, FALSE>>,
        <<<<"reviewedBy", "jobTitle">>, {"reviewed_by_title"}, FALSE>>,
        <<<<"image">>, {"post_image"}, FALSE>>,
        <<<<"publisher">>, {"website_url"}, TRUE>>,
        <<<<"isPartOf", "@id">>, {"website_url"}, TRUE>>,
        <<<<"isPartOf", "url">>, {"website_url"}, FALSE>>,
        <<<<"isPartOf", "name">>, {"business_name"}, FALSE>>,
        <<<<"isPartOf", "publisher">>, {"website_url"}, TRUE>>,
        <<<<"mentions">>, {"mentions"}, FALSE>>,
        <<<<"wordCount">>, {"word_count"}, FALSE>>,
        <<<<"articleSection">>, {"article_section"}, FALSE>>,
        <<<<"mainEntityOfPage", "@id">>, {"post_url", "website_url"}, TRUE>> }}

\* breadcrumb.py: def generate_breadcrumb
BreadcrumbProperties ==
    {Property("generate_breadcrumb", e[1], e[2], e[3]) : e \in {
        <<<<"@id">>, {"current_page_url", "website_url"}, TRUE>>,
        <<<<"itemListElement">>, {"breadcrumb_items"}, TRUE>> }}

\* product.py: def generate_product
ProductProperties ==
    {Property("generate_product", e[1], e[2], e[3]) : e \in {
        <<<<"@id">>, {"product_url", "website_url"}, FALSE>>,
        <<<<"name">>, {"product_name"}, FALSE>>,
        <<<<"description">>, {"product_description"}, FALSE>>,
        <<<<"disambiguatingDescription">>, {"product_disambiguating"}, FALSE>>,
        <<<<"sku">>, {"sku"}, FALSE>>,
        <<<<"mpn">>, {"mpn"}, FALSE>>,
        <<<<"gtin">>, {"gtin"}, FALSE>>,
        <<<<"gtin13">>, {"gtin13"}, FALSE>>,
        <<<<"url">>, {"product_url"}, FALSE>>,
        <<<<"color">>, {"color"}, FALSE>>,
        <<<<"material">>, {"material"}, FALSE>>,
        <<<<"pattern">>, {"pattern"}, FALSE>>,
        <<<<"category">>, {"category"}, FALSE>>,
        <<<<"slogan">>, {"product_slogan"}, FALSE>>,
        <<<<"image">>, {"product_images", "product_image"}, FALSE>>,
        <<<<"brand">>, {"website_url"}, TRUE>>,
        <<<<"manufacturer">>, {"website_url"}, TRUE>>,
        <<<<"isRelatedTo">>, {"is_related_to"}, FALSE>>,
        <<<<"offers">>, {"price"}, FALSE>>,
        <<<<"offers", "url">>, {"product_url"}, FALSE>>,
        <<<<"offers", "priceCurrency">>, {"currency"}, TRUE>>,
        <<<<"offers", "priceValidUntil">>, {"price_valid_until"}, FALSE>>,
        <<<<"offers", "availability">>, {"availability"}, TRUE>>,
        <<<<"offers", "seller">>, {"website_url"}, TRUE>>,
        <<<<"offers", "shippingDetails">>, {"shipping_rate"}, FALSE>>,
        <<<<"offers", "shippingDetails", "shippingDestination", "addressCountry">>,
            {"shipping_country"}, FALSE>>,
        <<<<"offers", "shippingDetails", "deliveryTime", "handlingTime", "minValue">>,
            {"handling_time_min"}, TRUE>>,
        <<<<"offers", "shippingDetails", "deliveryTime", "handlingTime", "maxValue">>,
            {"handling_time_max"}, TRUE>>,
        <<<<"offers", "shippingDetails", "deliveryTime", "transitTime", "minValue">>,
            {"transit_time_min"}, TRUE>>,
        <<<<"offers", "shippingDetails", "deliveryTime", "transitTime", "maxValue">>,
            {"transit_time_max"}, TRUE>>,
        <<<<"offers", "hasMerchantReturnPolicy">>, {"return_days"}, FALSE>>,
        <<<<"offers", "hasMerchantReturnPolicy", "applicableCountry">>,
            {"return_policy_country"}, FALSE>>,
        <<<<"offers", "hasMerchantReturnPolicy", "returnMethod">>,
            {"return_method"}, TRUE>>,
        <<<<"offers", "hasMerchantReturnPolicy", "returnFees">>,
            {"return_fees"}, TRUE>>,
        <<<<"aggregateRating">>, {"aggregate_rating_value"}, FALSE>>,
        <<<<"aggregateRating">>, {"aggregate_rating_count"}, FALSE>>,
        <<<<"aggregateRating", "bestRating">>, {"best_rating"}, TRUE>>,
        <<<<"aggregateRating", "worstRating">>, {"worst_rating"}, TRUE>>,
        <<<<"review">>, {"reviews"}, FALSE>> }}

\* saas.py: def generate_saas_app
SaasAppProperties ==
    {Property("generate_saas_app", e[1], e[2], e[3]) : e \in {
        <<<<"@id">>, {"app_url", "website_url"}, TRUE>>,
        <<<<"name">>, {"app_name", "business_name"}, FALSE>>,
        <<<<"description">>, {"app_description", "description"}, FALSE>>,
        <<<<"url">>, {"app_url", "website_url"}, FALSE>>,
        <<<<"sameAs">>, {"marketing_url", "website_url"}, FALSE>>,
        <<<<"browserRequirements">>, {"browser_requirements"}, TRUE>>,
        <<<<"applicationCategory">>, {"app_category"}, TRUE>>,
        <<<<"applicationSuite">>, {"app_suite"}, FALSE>>,
        <<<<"operatingSystem">>, {"operating_system"}, TRUE>>,
        <<<<"permissions">>, {"permissions"}, FALSE>>,
        <<<<"releaseNotes">>, {"release_notes_url"}, FALSE>>,
        <<<<"provider">>, {"website_url"}, TRUE>>,
        <<<<"offers">>, {"pricing_tiers", "price"}, FALSE>>,
        <<<<"offers", "priceCurrency">>, {"currency"}, TRUE>>,
        <<<<"isPartOf", "@id">>, {"website_url"}, TRUE>>,
        <<<<"isPartOf", "url">>, {"website_url"}, FALSE>>,
        <<<<"isPartOf", "publisher">>, {"website_url"}, TRUE>> }}

\* saas.py: def generate_saas_pricing_page
SaasPricingPageProperties ==
    {Property("generate_saas_pricing_page", e[1], e[2], e[3]) : e \in {
        <<<<"@graph", "1", "@id">>, {"pricing_page_url", "website_url"}, TRUE>>,
        <<<<"@graph", "1", "url">>, {"pricing_page_url", "website_url"}, TRUE>>,
        <<<<"@graph", "1", "name">>,
            {"pricing_page_title", "business_name"}, TRUE>>,
        <<<<"@graph", "1", "description">>,
            {"pricing_page_description"}, FALSE>>,
        <<<<"@graph", "1", "inLanguage">>, {"language"}, TRUE>>,
        <<<<"@graph", "1", "mainEntity">>,
            {"pricing_page_url", "website_url"}, TRUE>>,
        <<<<"@graph", "1", "about">>,
            {"pricing_page_url", "website_url"}, TRUE>>,
        <<<<"@graph", "1", "isPartOf", "@id">>, {"website_url"}, TRUE>>,
        <<<<"@graph", "1", "isPartOf", "url">>, {"website_url"}, FALSE>>,
        <<<<"@graph", "1", "isPartOf", "publisher">>, {"website_url"}, TRUE>>,
        <<<<"@graph", "2", "@id">>, {"pricing_page_url", "website_url"}, TRUE>>,
        <<<<"@graph", "2", "url">>, {"pricing_page_url", "website_url"}, TRUE>>,
        <<<<"@graph", "2", "lowPrice">>, {"pricing_tiers"}, FALSE>>,
        <<<<"@graph", "2", "highPrice">>, {"pricing_tiers"}, FALSE>>,
        <<<<"@graph", "2", "priceCurrency">>, {"currency"}, TRUE>>,
        <<<<"@graph", "2", "offerCount">>, {"pricing_tiers"}, TRUE>>,
        <<<<"@graph", "2", "offers">>, {"pricing_tiers"}, FALSE>>,
        <<<<"@graph", "2", "category", "@id">>,
            {"app_url", "website_url"}, TRUE>>,
        <<<<"@graph", "2", "category", "name">>,
            {"app_name", "business_name"}, FALSE>>,
        <<<<"@graph", "2", "category", "serviceType">>,
            {"app_category"}, TRUE>>,
        <<<<"@graph", "2", "category", "provider">>, {"website_url"}, TRUE>> }}

Properties ==
    OrganizationProperties \cup LocalBusinessProperties \cup WebsiteProperties
    \cup WebpageProperties \cup HomepageProperties \cup AboutPageProperties
    \cup ContactPageProperties \cup PersonProperties \cup ServicePageProperties
    \cup MultiServicePageProperties \cup FaqProperties \cup FaqNestedInPageProperties
    \cup BlogPostProperties \cup BreadcrumbProperties \cup ProductProperties
    \cup SaasAppProperties \cup SaasPricingPageProperties

RECURSIVE HasPath(_, _)
\* The document v has a value at path.
HasPath(v, path) ==
    IF path = <<>> THEN TRUE
    ELSE CASE v.t = "dict" ->
                /\ Head(path) \in DOMAIN v.d
                /\ HasPath(v.d[Head(path)], Tail(path))
           [] v.t = "list" ->
                \E i \in DOMAIN v.l :
                    ToString(i) = Head(path) /\ HasPath(v.l[i], Tail(path))
           [] OTHER -> FALSE

(***************************************************************************)
(* Claims about the generators (SpecGen)                                   *)
(***************************************************************************)
RECURSIVE HasEmptyValuedKey(_)
\* v has, at some depth, a key whose value is "", [] or {}.
HasEmptyValuedKey(v) ==
    CASE v.t = "dict" ->
            \E k \in DOMAIN v.d :
                \/ v.d[k] \in {EmptyStr, EmptyList, EmptyDict}
                \/ HasEmptyValuedKey(v.d[k])
      [] v.t = "list" -> \E i \in DOMAIN v.l : HasEmptyValuedKey(v.l[i])
      [] OTHER -> FALSE

\* C6: the document a generator returns has no key, at any depth, whose
\* value is an empty string, an empty list or an empty mapping.
C6_NoEmptyValuedKey ==
    (called \in Generators /\ returned # Raised) => ~HasEmptyValuedKey(returned)

\* generate_saas_pricing_page has returned its @graph for a record whose
\* pricing tiers have no usable price, so that lowPrice and highPrice were
\* built as "" and pruned.
C6_Witness ==
    /\ called = "generate_saas_pricing_page"
    /\ returned # Raised
    /\ "pricing_tiers" \in DOMAIN facts.d
    /\ Prices(facts.d["pricing_tiers"].l) = <<>>
    /\ Len(returned.d["@graph"].l) = 2
    /\ "lowPrice" \notin DOMAIN returned.d["@graph"].l[2].d

\* C7: on a record in which some of the fields are absent, a generator
\* returns a document, it does not raise, and the document has no property
\* whose value comes from absent fields alone.
C7_AbsentFieldOmitsProperty ==
    called \in Generators =>
        /\ returned # Raised
        /\ \A p \in Properties :
              (/\ p.generator = called
               /\ ~p.default
               /\ p.fields \cap DOMAIN facts.d = {})
              => ~HasPath(returned, p.path)

RECURSIVE OrganizationIds(_)
\* The "@id" values of the document v, at any depth, that name an
\* organization.
OrganizationIds(v) ==
    CASE v.t = "dict" ->
            UNION {OrganizationIds(v.d[k]) : k \in DOMAIN v.d}
            \cup (IF /\ "@id" \in DOMAIN v.d
                     /\ v.d["@id"].t = "str"
                     /\ EndsWith(v.d["@id"].s, S("/#organization"))
                  THEN {v.d["@id"]} ELSE {})
      [] v.t = "list" -> UNION {OrganizationIds(v.l[i]) : i \in DOMAIN v.l}
      [] OTHER -> {}

\* C1: every Organization identifier in the document of a generator is
\* normalize_url(website_url) + "/#organization", so that the generators
\* called on one record all emit the same one; every generator but
\* generate_breadcrumb, and generate_person without a base URL, emits it.
C1_SameOrganizationId ==
    (called \in Generators /\ returned # Raised) =>
        LET website_url == GetS(facts, "website_url")
            expected == Str(normalize_url(website_url).s \o S("/#organization"))
            emits == /\ called # "generate_breadcrumb"
                     /\ called = "generate_person" => Truthy(normalize_url(website_url))
        IN  /\ OrganizationIds(returned) \subseteq {expected}
            /\ emits => OrganizationIds(returned) # {}

(***************************************************************************)
(* helpers.py: the text parsers of the wizard's forms                      *)
(***************************************************************************)
RECURSIVE SplitAt(_, _)
\* The pieces of s between the characters of seps, empty pieces included:
\* s.split(c), and re.split on a class of characters.
SplitAt(s, seps) ==
    LET at == {i \in DOMAIN s : s[i] \in seps}
    IN  IF at = {} THEN <<s>>
        ELSE LET first == CHOOSE i \in at : \A j \in at : i <= j
             IN  <<SubSeq(s, 1, first - 1)>>
                    \o SplitAt(SubSeq(s, first + 1, Len(s)), seps)

RECURSIVE Join(_, _)
\* sep.join(l) for a list l of str
Join(sep, l) ==
    IF l = <<>> THEN <<>>
    ELSE IF Len(l) = 1 THEN l[1].s
    ELSE l[1].s \o sep \o Join(sep, Tail(l))

\* [p.strip() for p in re.split(r"[seps]+", text) if p.strip()]: a run of
\* separators yields no piece, and an empty piece is dropped.
StrippedPieces(text, seps) ==
    IF ~Truthy(text) THEN EmptyList
    ELSE LET pieces == SplitAt(text.s, seps)
             kept == SelectSeq(pieces, LAMBDA p : Strip(p) # <<>>)
         IN  Lst([i \in DOMAIN kept |-> Str(Strip(kept[i]))])

\* def parse_urls_input(text)
parse_urls_input(text) == StrippedPieces(text, {"\n", ","})

\* def parse_cities_input(text)
parse_cities_input(text) == StrippedPieces(text, {"\n", ","})

\* def parse_postal_codes(text)
parse_postal_codes(text) == StrippedPieces(text, {"\n", ","} \cup Whitespace)

\* \w of a regular expression, on the characters of the model
WordChars ==
    {LowerChars[i] : i \in DOMAIN LowerChars}
    \cup {UpperChars[i] : i \in DOMAIN UpperChars}
    \cup {Digits[i] : i \in DOMAIN Digits} \cup {"_"}

RECURSIVE CollapseRuns(_, _, _)
\* re.sub(r"[chars]+", c, s): every run of characters of chars becomes c
CollapseRuns(s, chars, c) ==
    IF s = <<>> THEN <<>>
    ELSE IF Head(s) \in chars
    THEN LET rest == CollapseRuns(Tail(s), chars, c)
         IN  IF Len(s) > 1 /\ s[2] \in chars THEN rest ELSE <<c>> \o rest
    ELSE <<Head(s)>> \o CollapseRuns(Tail(s), chars, c)

RECURSIVE LStripSet(_, _)
\* s.lstrip(chars)
LStripSet(s, chars) ==
    IF s # <<>> /\ Head(s) \in chars THEN LStripSet(Tail(s), chars) ELSE s

\* s.strip(chars)
StripSet(s, chars) == RStripSet(LStripSet(s, chars), chars)

\* def slugify(text)
slugify(text) ==
    LET lowered == Strip(Lower(text.s))
        kept == SelectSeq(lowered,
                    LAMBDA c : c \in WordChars \cup Whitespace \cup {"-"})
        dashed == CollapseRuns(kept, Whitespace \cup {"_"}, "-")
        single == CollapseRuns(dashed, {"-"}, "-")
    IN  Str(StripSet(single, {"-"}))

\* One line of the knowsAbout and Mentions text areas, as the form writes
\* it: f"{name} | {wikidata_id} | {wikipedia_url}".
TopicLine(k) ==
    Str(Fmt(GetS(k, "name")) \o S(" | ") \o Fmt(GetS(k, "wikidata_id"))
        \o S(" | ") \o Fmt(GetS(k, "wikipedia_url")))

\* The entries parsed from such a text area: one per line whose first part
\* is not empty, with the pairs of base first ({"name": parts[0]} for
\* knowsAbout, and "type": "Thing" besides for Mentions).
ParseTopics(raw, base) ==
    LET lines == SplitAt(Strip(raw.s), {"\n"})
        Parts(line) ==
            LET ps == SplitAt(line, {"|"}) IN [i \in DOMAIN ps |-> Strip(ps[i])]
        kept == SelectSeq(lines, LAMBDA line : Parts(line)[1] # <<>>)
        Entry(line) ==
            LET parts == Parts(line)
            IN  MkDict(<< <<"name", Str(parts[1])>> >> \o base
                    \o Opt(Len(parts) > 1, "wikidata_id",
                           Str(IF Len(parts) > 1 THEN parts[2] ELSE <<>>))
                    \o Opt(Len(parts) > 2, "wikipedia_url",
                           Str(IF Len(parts) > 2 THEN parts[3] ELSE <<>>)))
    IN  Lst([i \in DOMAIN kept |-> Entry(kept[i])])

\* "\n".join(lines) of a list value
JoinLines(l) == Str(Join(<<"\n">>, l.l))

(***************************************************************************)
(* app.py: the session and the forms                                       *)
(*                                                                         *)
(* One action is one run of the script: Streamlit runs app.py from the top *)
(* on every interaction, with the widgets' values and the pressed button   *)
(* as its inputs.  A widget the user leaves alone returns its value=       *)
(* argument; the widgets the model types into are named with each step.    *)
(* The sidebar's selectbox stores the business type on every run; the      *)
(* model changes it at step 2 only, where it decides the checkboxes.       *)
(* The scraper, the AI enrichment and the Fact Cheat upload are not run,   *)
(* so st.session_state["ai_enriched"] is never set and ai is {}.           *)
(***************************************************************************)
MaxSelected == 2
MaxRows == 2
MaxCustomize == 1

BusinessTypes == {"Local / Service Business", "E-commerce", "SaaS / Software"}

T(str) == Str(S(str))

\* defaults: the row lists a session starts with
SessionDefaults ==
    [services |->
        Lst(<<MkDict(<< <<"name", EmptyStr>>, <<"url", EmptyStr>>,
                        <<"service_type", EmptyStr>>, <<"audience", EmptyStr>> >>)>>),
     sub_services |->
        Lst(<<MkDict(<< <<"name", EmptyStr>>, <<"url", EmptyStr>>,
                        <<"service_type", EmptyStr>> >>)>>),
     service_categories |->
        Lst(<<MkDict(<< <<"name", EmptyStr>>, <<"url", EmptyStr>>,
                        <<"description", EmptyStr>>, <<"services", EmptyList>> >>)>>),
     faq_questions |->
        Lst(<<MkDict(<< <<"question", EmptyStr>>, <<"answer", EmptyStr>>,
                        <<"answer_links", EmptyList>> >>)>>),
     pricing_tiers |->
        Lst(<<MkDict(<< <<"name", EmptyStr>>, <<"price", EmptyStr>>,
                        <<"url", EmptyStr>>, <<"billing_period", T("MON")>>,
                        <<"description", EmptyStr>> >>)>>),
     breadcrumb_items |->
        Lst(<<MkDict(<< <<"name", T("Home")>>, <<"url", EmptyStr>> >>),
              MkDict(<< <<"name", EmptyStr>>, <<"url", EmptyStr>> >>)>>)]

\* The session after the defaults are installed and the sidebar has stored
\* the first option of its selectbox.
Init ==
    /\ step = 1
    /\ business_type = "Local / Service Business"
    /\ business_data = EmptyDict
    /\ selected_schemas = <<>>
    /\ session_lists = SessionDefaults
    /\ customized = 0
    /\ PageBlank
    /\ UrlIdle /\ CleanIdle /\ GenIdle

\* A run that is not the output step draws none of its elements.
BlankPage ==
    /\ shown' = step
    /\ schemas' = EmptyMap /\ all_errors' = <<>> /\ all_warnings' = <<>>
    /\ failed' = <<>> /\ zip_offered' = FALSE /\ json_offered' = {}

\* "Start Over": every key of the session is deleted and the next run
\* installs the defaults again.
StartOver ==
    /\ step \in 1..4
    /\ step' = 1
    /\ business_type' = "Local / Service Business"
    /\ business_data' = EmptyDict
    /\ selected_schemas' = <<>>
    /\ session_lists' = SessionDefaults
    /\ customized' = 0
    /\ BlankPage
    /\ UNCHANGED <<urlVars, cleanVars, genVars>>

(***************************************************************************)
(* app.py, step 1: Business Information                                    *)
(***************************************************************************)
BusinessNames == {EmptyStr, T("Acme")}
TypedUrls == {T("a.io/")}

\* The opening hours the seven rows yield: "Open" is ticked for every day
\* but Sunday, with "09:00" and "17:00".
OpeningHoursRows ==
    LET days == <<"Monday", "Tuesday", "Wednesday", "Thursday", "Friday",
                  "Saturday">>
    IN  Lst([i \in DOMAIN days |->
                MkDict(<< <<"day", T(days[i])>>, <<"opens", T("09:00")>>,
                          <<"closes", T("17:00")>> >>)])

\* The record "Next: Select Schemas" stores: business_name and website_url
\* are typed, every other widget returns its value= argument.
Step1Record(data, lists, business_name, website_url) ==
    LET Kept(k) == GetS(data, k)
        client_slug_default ==
            IF Truthy(business_name) THEN slugify(business_name) ELSE EmptyStr
        client_slug == Get(data, "client_slug", client_slug_default)
        knows_about ==
            ParseTopics(JoinLines(Lst([i \in DOMAIN GetL(data, "knows_about_raw").l |->
                            TopicLine(GetL(data, "knows_about_raw").l[i])])), <<>>)
    IN  MkDict(<<
            <<"business_name", business_name>>,
            <<"website_url", normalize_url(website_url)>>,
            <<"legal_name", Kept("legal_name")>>,
            <<"alternate_name", Kept("alternate_name")>>,
            <<"client_slug", Or(client_slug, slugify(business_name))>>,
            <<"description", Kept("description")>>,
            <<"disambiguating_description", Kept("disambiguating_description")>>,
            <<"slogan", Kept("slogan")>>,
            <<"schema_subtype", Get(data, "schema_subtype", T("LocalBusiness"))>>,
            <<"telephone", Kept("telephone")>>,
            <<"email", Kept("email")>>,
            <<"founding_date", Kept("founding_date")>>,
            <<"price_range", Kept("price_range")>>,
            <<"street_address", Kept("street_address")>>,
            <<"city", Kept("city")>>,
            <<"state", Kept("state")>>,
            <<"postal_code", Kept("postal_code")>>,
            <<"country", Get(data, "country", T("US"))>>,
            <<"logo_url", Kept("logo_url")>>,
            <<"image_url", Kept("image_url")>>,
            <<"has_map", Kept("has_map")>>,
            <<"same_as", parse_urls_input(JoinLines(GetL(data, "same_as")))>>,
            <<"knows_about", knows_about>>,
            <<"knows_about_raw", knows_about>>,
            <<"additional_types",
              parse_urls_input(JoinLines(GetL(data, "additional_types")))>>,
            <<"founder_name", Kept("founder_name")>>,
            <<"job_title", Kept("job_title")>>,
            <<"alumni_of", Kept("alumni_of")>>,
            <<"person_image", Kept("person_image")>>,
            <<"knows_language", Kept("knows_language")>>,
            <<"has_credential", Kept("has_credential")>>,
            <<"person_same_as",
              parse_urls_input(JoinLines(GetL(data, "person_same_as")))>>,
            <<"cities", parse_cities_input(JoinLines(GetL(data, "cities")))>>,
            <<"postal_codes",
              parse_postal_codes(JoinLines(GetL(data, "postal_codes")))>>,
            <<"area_served_name", Kept("area_served_name")>>,
            <<"opening_hours", OpeningHoursRows>>,
            <<"services",
              Lst(SelectSeq(lists.services.l, LAMBDA svc : Truthy(GetN(svc, "name"))))>>,
            <<"language", T("en")>> >>)

\* What extract_from_fact_cheat returns for the uploaded file: a partial
\* facts record, here of fields that have no widget at step 1, one of them
\* empty.
ExtractedRecords ==
    {MkDict(<< <<"latitude", T("39.5")>>, <<"longitude", T("-119.8")>>,
               <<"aggregate_rating_value", T("4.8")>>,
               <<"aggregate_rating_count", T("12")>>,
               <<"founding_location", EmptyStr>> >>)}

\* "Extract Data": the extracted values that are not empty are merged into
\* the record, over the values it has.
FactCheatMerge(data, extracted) ==
    LET taken == {k \in DOMAIN extracted.d :
                    Truthy(extracted.d[k]) \/ extracted.d[k] = IntV(0)}
    IN  Dct([k \in taken |-> extracted.d[k]] @@ data.d)

\* A run of the script at step 1: "Extract Data" merges the extracted
\* record and the script runs again at step 1; "Next: Select Schemas"
\* stores the record of the form and moves to step 2.
Step1BusinessInfo ==
    /\ step = 1
    /\ \E button \in {"none", "extract", "next"},
          business_name \in BusinessNames, website_url \in TypedUrls :
        /\ UNCHANGED business_type
        /\ CASE button = "next" ->
                /\ business_data' =
                       Step1Record(business_data, session_lists,
                                   business_name, website_url)
                /\ step' = 2
             [] button = "extract" ->
                /\ \E extracted \in ExtractedRecords :
                       business_data' = FactCheatMerge(business_data, extracted)
                /\ UNCHANGED step
             [] OTHER -> UNCHANGED <<business_data, step>>
    /\ BlankPage
    /\ UNCHANGED <<selected_schemas, session_lists, customized>>
    /\ UNCHANGED <<urlVars, cleanVars, genVars>>

(***************************************************************************)
(* app.py, step 2: Select Schemas                                          *)
(***************************************************************************)
\* The keys of all_schemas, in the order the checkboxes are drawn.
all_schemas(btype) ==
    <<"homepage", "website", "about", "contact", "organization", "person",
      "service_single", "service_multi", "blog", "faq", "breadcrumb">>
    \o (IF btype = "E-commerce" THEN <<"product">> ELSE <<>>)
    \o (IF btype = "SaaS / Software" THEN <<"saas_app", "saas_pricing">> ELSE <<>>)

defaults_by_type(btype) ==
    CASE btype = "Local / Service Business" ->
            <<"homepage", "about", "contact", "organization", "service_single",
              "faq", "breadcrumb">>
      [] btype = "E-commerce" ->
            <<"homepage", "about", "contact", "organization", "product", "faq">>
      [] btype = "SaaS / Software" ->
            <<"homepage", "about", "contact", "organization", "saas_app",
              "saas_pricing", "faq">>

RECURSIVE SubsetsUpTo(_, _)
\* The subsets of keys of n elements at most.
SubsetsUpTo(keys, n) ==
    IF n = 0 THEN {{}}
    ELSE LET smaller == SubsetsUpTo(keys, n - 1)
         IN  smaller \cup {t \cup {k} : t \in smaller, k \in keys}

\* A run of the script at step 2.  ticked is the set of ticked checkboxes,
\* MaxSelected of them at most; selected lists them in the order of
\* all_schemas.  "Next: Customize" is disabled while nothing is ticked, and
\* is pressed MaxCustomize times at most in a session.
Step2SelectSchemas ==
    /\ step = 2
    /\ \E type \in BusinessTypes, button \in {"none", "back", "next"} :
        /\ business_type' = type
        /\ CASE button = "back" ->
                    /\ step' = 1
                    /\ UNCHANGED <<selected_schemas, customized>>
             [] button = "next" ->
                    /\ customized < MaxCustomize
                    /\ \E ticked \in SubsetsUpTo(
                              {all_schemas(type)[i] : i \in DOMAIN all_schemas(type)},
                              MaxSelected) :
                        LET selected == SelectSeq(all_schemas(type),
                                                  LAMBDA key : key \in ticked)
                        IN  /\ selected # <<>>
                            /\ selected_schemas' = selected
                    /\ step' = 3
                    /\ customized' = customized + 1
             [] OTHER -> UNCHANGED <<step, selected_schemas, customized>>
    /\ BlankPage
    /\ UNCHANGED <<business_data, session_lists>>
    /\ UNCHANGED <<urlVars, cleanVars, genVars>>

(***************************************************************************)
(* app.py, step 3: Customize                                               *)
(*                                                                         *)
(* The widgets the model types into: "Primary Service Name", the question  *)
(* and answer of every FAQ row, the plan name and price of every pricing   *)
(* tier, and the name, price and image of the product.                     *)
(***************************************************************************)
ServiceNames == {EmptyStr, T("Drain")}
QuestionTexts == {<<EmptyStr, EmptyStr>>, <<T("Why?"), T("So.")>>}
TierTexts == {<<EmptyStr, EmptyStr>>, <<T("Pro"), T("9.5")>>, <<T("Max"), T("1.2.3")>>}
ProductTexts ==
    {<<EmptyStr, EmptyStr, EmptyStr>>, <<T("Wrench"), T("9.5"), T("a.io/w.png")>>}

\* data[k] = v for the pairs <<k, v>>, in order
Put(data, pairs) == Dct(MkDict(pairs).d @@ data.d)

\* [row for row in rows if row.get(k)]
Named(rows, k) == Lst(SelectSeq(rows.l, LAMBDA row : Truthy(GetN(row, k))))

\* The homepage tab.
HomepageTab(data) ==
    Put(data, <<
        <<"page_title", Get(data, "page_title", GetS(data, "business_name"))>>,
        <<"page_description", Get(data, "page_description", GetS(data, "description"))>>,
        <<"related_links", parse_urls_input(JoinLines(GetL(data, "related_links")))>> >>)

\* The website tab.
WebsiteTab(data) ==
    Put(data, << <<"enable_search_action",
                   Get(data, "enable_search_action", Bool(FALSE))>> >>)

\* The about tab: "Person Profile URL" reads the about_page_url just stored.
AboutTab(data, base_url) ==
    LET about_page_url ==
            Get(data, "about_page_url", Str(Fmt(base_url) \o S("/about")))
    IN  Put(data, <<
            <<"about_page_url", about_page_url>>,
            <<"about_page_title",
              Get(data, "about_page_title",
                  Str(S("About ") \o Fmt(GetS(data, "business_name"))))>>,
            <<"about_page_description", GetS(data, "about_page_description")>>,
            <<"person_description", GetS(data, "person_description")>>,
            <<"person_url", Get(data, "person_url", about_page_url)>> >>)

\* The contact tab.
ContactTab(data, base_url) ==
    Put(data, <<
        <<"contact_page_url",
          Get(data, "contact_page_url", Str(Fmt(base_url) \o S("/contact")))>>,
        <<"contact_page_title",
          Get(data, "contact_page_title",
              Str(S("Contact ") \o Fmt(GetS(data, "business_name"))))>>,
        <<"contact_page_description", GetS(data, "contact_page_description")>> >>)

\* The organization tab: the value= of "Founding Location" is stripped of
\* commas and blanks whether it is the stored one or the default.
OrganizationTab(data) ==
    Put(data, <<
        <<"founding_location",
          Str(StripSet(
                Get(data, "founding_location",
                    Str(Fmt(GetS(data, "city")) \o S(", ")
                        \o Fmt(GetS(data, "country")))).s,
                {",", " "}))>>,
        <<"payment_accepted", GetS(data, "payment_accepted")>> >>)

\* The person tab.
PersonTab(data) ==
    Put(data, <<
        <<"job_title_same_as", GetS(data, "job_title_same_as")>>,
        <<"alumni_of_url", GetS(data, "alumni_of_url")>>,
        <<"award", GetS(data, "award")>>,
        <<"nationality", GetS(data, "nationality")>> >>)

\* The sub-service rows after their widgets wrote name and url back.
SubServiceRows(rows) ==
    Lst([i \in DOMAIN rows.l |->
            Put(rows.l[i], << <<"name", GetS(rows.l[i], "name")>>,
                              <<"url", GetS(rows.l[i], "url")>> >>)])

\* The single-service tab: "serviceType" reads the service_name just stored.
ServiceSingleTab(data, lists, service_name) ==
    LET rows == SubServiceRows(lists.sub_services)
    IN  [data |->
            Put(data, <<
                <<"service_name", service_name>>,
                <<"service_page_url", GetS(data, "service_page_url")>>,
                <<"service_description", GetS(data, "service_description")>>,
                <<"service_type", Get(data, "service_type", service_name)>>,
                <<"service_audience", GetS(data, "service_audience")>>,
                <<"service_additional_type", GetS(data, "service_additional_type")>>,
                <<"sub_services", Named(rows, "name")>> >>),
         lists |-> [lists EXCEPT !.sub_services = rows]]

\* The services of one category after their widgets wrote name and url back.
CategoryServices(cat) ==
    LET services_in_cat ==
            Get(cat, "services",
                Lst(<<MkDict(<< <<"name", EmptyStr>>, <<"url", EmptyStr>> >>)>>))
    IN  Lst([i \in DOMAIN services_in_cat.l |->
                Put(services_in_cat.l[i],
                    << <<"name", GetS(services_in_cat.l[i], "name")>>,
                       <<"url", GetS(services_in_cat.l[i], "url")>> >>)])

\* The category rows after their widgets wrote back.
CategoryRows(cats) ==
    Lst([i \in DOMAIN cats.l |->
            Put(cats.l[i], << <<"name", GetS(cats.l[i], "name")>>,
                              <<"url", GetS(cats.l[i], "url")>>,
                              <<"description", GetS(cats.l[i], "description")>>,
                              <<"services", CategoryServices(cats.l[i])>> >>)])

\* The multi-service tab.
ServiceMultiTab(data, lists, base_url) ==
    LET cats == CategoryRows(lists.service_categories)
    IN  [data |->
            Put(data, <<
                <<"services_page_url",
                  Get(data, "services_page_url", Str(Fmt(base_url) \o S("/services")))>>,
                <<"services_page_title",
                  Get(data, "services_page_title",
                      Str(S("Services ") \o <<EmDash>> \o S(" ")
                          \o Fmt(GetS(data, "business_name"))))>>,
                <<"services_page_description", GetS(data, "services_page_description")>>,
                <<"service_categories", cats>> >>),
         lists |-> [lists EXCEPT !.service_categories = cats]]

\* The blog tab.
BlogTab(data) ==
    LET mentions == GetL(data, "mentions")
        mentions_raw ==
            JoinLines(Lst([i \in DOMAIN mentions.l |-> TopicLine(mentions.l[i])]))
    IN  Put(data, <<
            <<"post_url", GetS(data, "post_url")>>,
            <<"post_title", GetS(data, "post_title")>>,
            <<"post_description", GetS(data, "post_description")>>,
            <<"date_published", GetS(data, "date_published")>>,
            <<"date_modified", GetS(data, "date_modified")>>,
            <<"post_image", GetS(data, "post_image")>>,
            <<"keywords", GetS(data, "keywords")>>,
            <<"article_section", GetS(data, "article_section")>>,
            <<"mentions", ParseTopics(mentions_raw, << <<"type", T("Thing")>> >>)>> >>)

\* The FAQ tab: texts[i] is what row i's question and answer widgets hold.
FaqTab(data, lists, base_url, texts) ==
    LET questions ==
            Lst([i \in DOMAIN lists.faq_questions.l |->
                    Put(lists.faq_questions.l[i],
                        << <<"question", texts[i][1]>>, <<"answer", texts[i][2]>> >>)])
    IN  [data |->
            Put(data, <<
                <<"faq_page_url",
                  Get(data, "faq_page_url", Str(Fmt(base_url) \o S("/faq")))>>,
                <<"faq_page_title",
                  Get(data, "faq_page_title",
                      Str(S("FAQ ") \o <<EmDash>> \o S(" ")
                          \o Fmt(GetS(data, "business_name"))))>>,
                <<"faq_page_description", GetS(data, "faq_page_description")>>,
                <<"questions",
                  Lst(SelectSeq(questions.l,
                        LAMBDA q : Truthy(GetN(q, "question")) /\ Truthy(GetN(q, "answer"))))>> >>),
         lists |-> [lists EXCEPT !.faq_questions = questions]]

\* The product tab: texts is what the name, price and image widgets hold.
\* The selectboxes return their first option.
ProductTab(data, texts) ==
    LET shipping_rate == GetS(data, "shipping_rate")
    IN  Put(data, <<
            <<"product_url", GetS(data, "product_url")>>,
            <<"product_name", texts[1]>>,
            <<"product_description", GetS(data, "product_description")>>,
            <<"sku", GetS(data, "sku")>>,
            <<"gtin13", GetS(data, "gtin13")>>,
            <<"price", texts[2]>>,
            <<"currency", Get(data, "currency", T("USD"))>>,
            <<"availability", T("In Stock")>>,
            <<"price_valid_until", GetS(data, "price_valid_until")>>,
            <<"product_image", texts[3]>>,
            <<"aggregate_rating_value", GetS(data, "aggregate_rating_value")>>,
            <<"aggregate_rating_count", GetS(data, "aggregate_rating_count")>>,
            <<"shipping_rate", IF shipping_rate # EmptyStr THEN shipping_rate ELSE None>>,
            <<"shipping_country", GetS(data, "shipping_country")>>,
            <<"handling_time_min", Get(data, "handling_time_min", IntV(1))>>,
            <<"handling_time_max", Get(data, "handling_time_max", IntV(3))>>,
            <<"return_days", Get(data, "return_days", IntV(30))>>,
            <<"return_policy_country", GetS(data, "return_policy_country")>>,
            <<"return_method", T("ReturnByMail")>>,
            <<"return_fees", T("FreeReturn")>> >>)

\* The SaaS app tab.
SaasAppTab(data, base_url) ==
    Put(data, <<
        <<"app_url", Get(data, "app_url", base_url)>>,
        <<"app_name", Get(data, "app_name", GetS(data, "business_name"))>>,
        <<"app_description", Get(data, "app_description", GetS(data, "description"))>>,
        <<"marketing_url", Get(data, "marketing_url", base_url)>>,
        <<"app_category", Get(data, "app_category", T("BusinessApplication"))>>,
        <<"app_suite", GetS(data, "app_suite")>>,
        <<"browser_requirements",
          Get(data, "browser_requirements", T("Requires JavaScript. Requires HTML5."))>>,
        <<"operating_system", Get(data, "operating_system", T("Web Browser"))>> >>)

\* The SaaS pricing tab: texts[i] is what tier i's name and price widgets
\* hold; the billing period selectbox returns its first option.
SaasPricingTab(data, lists, base_url, texts) ==
    LET tiers ==
            Lst([i \in DOMAIN lists.pricing_tiers.l |->
                    Put(lists.pricing_tiers.l[i],
                        << <<"name", texts[i][1]>>,
                           <<"price", texts[i][2]>>,
                           <<"url", GetS(lists.pricing_tiers.l[i], "url")>>,
                           <<"billing_period", T("MON")>>,
                           <<"description",
                             GetS(lists.pricing_tiers.l[i], "description")>> >>)])
    IN  [data |->
            Put(data, <<
                <<"pricing_page_url",
                  Get(data, "pricing_page_url", Str(Fmt(base_url) \o S("/pricing")))>>,
                <<"pricing_page_title",
                  Get(data, "pricing_page_title",
                      Str(S("Pricing ") \o <<EmDash>> \o S(" ")
                          \o Fmt(GetS(data, "business_name"))))>>,
                <<"pricing_page_description", GetS(data, "pricing_page_description")>>,
                <<"currency", Get(data, "currency", T("USD"))>>,
                <<"pricing_tiers", tiers>> >>),
         lists |-> [lists EXCEPT !.pricing_tiers = tiers]]

\* The breadcrumb tab: the first row's URL defaults to base_url when the
\* row has no "url" key.
BreadcrumbTab(data, lists, base_url) ==
    LET rows == lists.breadcrumb_items
        items ==
            Lst([i \in DOMAIN rows.l |->
                    Put(rows.l[i],
                        << <<"name", GetS(rows.l[i], "name")>>,
                           <<"url", Get(rows.l[i], "url",
                                        IF i = 1 THEN base_url ELSE EmptyStr)>> >>)])
    IN  [data |->
            Put(data, <<
                <<"breadcrumb_items", items>>,
                <<"current_page_url",
                  IF items.l # <<>>
                  THEN Get(items.l[Len(items.l)], "url", base_url)
                  ELSE base_url>> >>),
         lists |-> [lists EXCEPT !.breadcrumb_items = items]]

\* The body of "for tab, schema_key in zip(tabs, selected)" for one key.
CustomizeTab(schema_key, data, lists, base_url, typed) ==
    CASE schema_key = "homepage" -> [data |-> HomepageTab(data), lists |-> lists]
      [] schema_key = "website" -> [data |-> WebsiteTab(data), lists |-> lists]
      [] schema_key = "about" -> [data |-> AboutTab(data, base_url), lists |-> lists]
      [] schema_key = "contact" -> [data |-> ContactTab(data, base_url), lists |-> lists]
      [] schema_key = "organization" -> [data |-> OrganizationTab(data), lists |-> lists]
      [] schema_key = "person" -> [data |-> PersonTab(data), lists |-> lists]
      [] schema_key = "service_single" -> ServiceSingleTab(data, lists, typed.service_name)
      [] schema_key = "service_multi" -> ServiceMultiTab(data, lists, base_url)
      [] schema_key = "blog" -> [data |-> BlogTab(data), lists |-> lists]
      [] schema_key = "faq" -> FaqTab(data, lists, base_url, typed.questions)
      [] schema_key = "product" -> [data |-> ProductTab(data, typed.product), lists |-> lists]
      [] schema_key = "saas_app" -> [data |-> SaasAppTab(data, base_url), lists |-> lists]
      [] schema_key = "saas_pricing" -> SaasPricingTab(data, lists, base_url, typed.tiers)
      [] schema_key = "breadcrumb" -> BreadcrumbTab(data, lists, base_url)
      [] OTHER -> [data |-> data, lists |-> lists]

RECURSIVE CustomizeTabs(_, _, _, _, _)
\* The loop over the tabs of the selected keys, in their order.
CustomizeTabs(selected, data, lists, base_url, typed) ==
    IF selected = <<>> THEN [data |-> data, lists |-> lists]
    ELSE LET done == CustomizeTab(Head(selected), data, lists, base_url, typed)
         IN  CustomizeTabs(Tail(selected), done.data, done.lists, base_url, typed)

\* rows with one more row appended
WithRow(rows, row) == Lst(Append(rows.l, row))

\* selected as a set
Selected(selected) == {selected[i] : i \in DOMAIN selected}

\* What the typed widgets of the drawn tabs can hold, for the row lists
\* lists; a widget of a tab that is not drawn holds nothing.
TypedInputs(selected, lists) ==
    [service_name : IF "service_single" \in Selected(selected)
                    THEN ServiceNames ELSE {EmptyStr},
     questions : IF "faq" \in Selected(selected)
                 THEN [DOMAIN lists.faq_questions.l -> QuestionTexts] ELSE {<<>>},
     tiers : IF "saas_pricing" \in Selected(selected)
             THEN [DOMAIN lists.pricing_tiers.l -> TierTexts] ELSE {<<>>},
     product : IF "product" \in Selected(selected)
               THEN ProductTexts ELSE {<<EmptyStr, EmptyStr, EmptyStr>>}]

\* A run of the script at step 3.  Every tab of a selected key writes its
\* widgets into business_data, which is the session's own dict, whatever
\* button is pressed.  "+ Add Pricing Tier" appends an empty row and asks
\* for a rerun: the action is that run followed by the rerun, in which the
\* new row is drawn with empty widgets.  The list holds MaxRows rows at
\* most; the other row buttons are not pressed.
Step3Customize ==
    /\ step = 3
    /\ \E button \in {"none", "back", "generate", "add_tier"} :
        /\ UNCHANGED business_type
        /\ button = "add_tier" =>
                /\ "saas_pricing" \in Selected(selected_schemas)
                /\ Len(session_lists.pricing_tiers.l) < MaxRows
        /\ \E typed \in TypedInputs(selected_schemas, session_lists) :
            LET tiers == session_lists.pricing_tiers
                lists ==
                    IF button = "add_tier"
                    THEN [session_lists EXCEPT !.pricing_tiers =
                            WithRow(tiers, SessionDefaults.pricing_tiers.l[1])]
                    ELSE session_lists
                held ==
                    IF button = "add_tier"
                    THEN [typed EXCEPT !.tiers =
                            Append(typed.tiers, <<EmptyStr, EmptyStr>>)]
                    ELSE typed
                done == CustomizeTabs(selected_schemas, business_data, lists,
                                      GetS(business_data, "website_url"), held)
            IN  /\ business_data' = done.data
                /\ session_lists' = done.lists
        /\ step' = CASE button = "back" -> 2
                     [] button = "generate" -> 4
                     [] OTHER -> 3
    /\ BlankPage
    /\ UNCHANGED <<selected_schemas, customized>>
    /\ UNCHANGED <<urlVars, cleanVars, genVars>>

(***************************************************************************)
(* app.py, step 4: Output                                                  *)
(***************************************************************************)
\* generator_map[key](d): the file key and the document, Raised in place
\* of the document when the generator raises.
Generate(key, data, btype) ==
    CASE key = "homepage" ->
            [file_key |-> "homepage", schema |-> generate_homepage(data)]
      [] key = "website" ->
            [file_key |-> "website", schema |-> generate_website(data)]
      [] key = "about" ->
            [file_key |-> "about", schema |-> generate_about_page(data)]
      [] key = "contact" ->
            [file_key |-> "contact", schema |-> generate_contact_page(data)]
      [] key = "organization" ->
            [file_key |-> "organization",
             schema |-> IF btype = "Local / Service Business"
                        THEN generate_local_business(data)
                        ELSE generate_organization(data)]
      [] key = "person" ->
            [file_key |-> "person",
             schema |-> generate_person(data, GetS(data, "website_url"))]
      [] key = "service_single" ->
            [file_key |-> "service", schema |-> generate_service_page(data)]
      [] key = "service_multi" ->
            [file_key |-> "services-multi",
             schema |-> generate_multi_service_page(data)]
      [] key = "blog" ->
            [file_key |-> "blog", schema |-> generate_blog_post(data)]
      [] key = "faq" ->
            [file_key |-> "faq", schema |-> generate_faq(data)]
      [] key = "breadcrumb" ->
            [file_key |-> "breadcrumb", schema |-> generate_breadcrumb(data)]
      [] key = "product" ->
            [file_key |-> "product", schema |-> generate_product(data)]
      [] key = "saas_app" ->
            [file_key |-> "webapp", schema |-> generate_saas_app(data)]
      [] key = "saas_pricing" ->
            [file_key |-> "pricing", schema |-> generate_saas_pricing_page(data)]

\* validator_map[key](d), and no issue for a key the map does not hold.
Validate(key, data, btype) ==
    CASE key \in {"homepage", "organization"} ->
            IF btype = "Local / Service Business"
            THEN validate_local_business(data)
            ELSE validate_organization(data)
      [] key \in {"about", "person"} -> validate_person(data)
      [] key = "service_single" -> validate_service(data)
      [] key = "blog" -> validate_blog_post(data)
      [] key = "faq" -> validate_faq(data)
      [] key = "product" -> validate_product(data)
      [] key \in {"saas_app", "saas_pricing"} -> validate_saas(data)
      [] OTHER -> <<>>

\* The lines format_issues_for_display and the loop make of the issues of
\* one level: f"[{key}] **{i.field}**: {i.message}", as <<key, field>>.
IssueLines(key, issues, level) ==
    LET of_level == SelectSeq(issues, LAMBDA i : i.level = level)
    IN  [i \in DOMAIN of_level |-> <<key, of_level[i].field>>]

\* schemas, all_errors and all_warnings before the loop; failed lists the
\* keys for which st.error reported an exception.
NothingGenerated ==
    [schemas |-> EmptyMap, all_errors |-> <<>>, all_warnings |-> <<>>,
     failed |-> <<>>]

\* One pass of the loop body for key, given what generator_map[key](data)
\* and validator_map[key](data) gave: the document is stored unless the
\* generator raised, and the issues are appended either way.
Collected(acc, key, generated, issues) ==
    [schemas |-> IF generated.schema = Raised THEN acc.schemas
                 ELSE (generated.file_key :> generated.schema) @@ acc.schemas,
     all_errors |-> acc.all_errors \o IssueLines(key, issues, "error"),
     all_warnings |-> acc.all_warnings \o IssueLines(key, issues, "warning"),
     failed |-> IF generated.schema = Raised
                THEN Append(acc.failed, key) ELSE acc.failed]

RECURSIVE GenerationLoop(_, _, _, _)

\* The loop with the try block left out: an exception of a generator ends
\* the loop.
GenerationLoop_unguarded(selected, data, btype, acc) ==
    IF selected = <<>> THEN acc
    ELSE LET pass == Collected(acc, Head(selected),
                               Generate(Head(selected), data, btype),
                               Validate(Head(selected), data, btype))
         IN  IF pass.failed # acc.failed
             THEN [acc EXCEPT !.failed = pass.failed]
             ELSE GenerationLoop(Tail(selected), data, btype, pass)

\* "for key in selected": the generator runs inside try/except, the
\* validator after it, whether the generator raised or not.
GenerationLoop(selected, data, btype, acc) ==
    IF selected = <<>> THEN acc
    ELSE GenerationLoop(Tail(selected), data, btype,
            Collected(acc, Head(selected),
                      Generate(Head(selected), data, btype),
                      Validate(Head(selected), data, btype)))

\* The page the output step draws for what the loop left: the error and
\* warning lines, then, under "if schemas:", the ZIP button and one tab
\* with a "Download JSON" button per document.
OutputPage(out) ==
    /\ shown' = 4
    /\ schemas' = out.schemas
    /\ all_errors' = out.all_errors
    /\ all_warnings' = out.all_warnings
    /\ failed' = out.failed
    /\ zip_offered' = (DOMAIN out.schemas # {})
    /\ json_offered' = DOMAIN out.schemas

\* A run of the script at step 4: the loop, the page, then the two
\* navigation buttons.  No run at step 4 writes to the session, so a run
\* that follows one at step 4 draws the page that is already there.
Step4Output ==
    /\ step = 4
    /\ IF shown = 4
       THEN UNCHANGED pageVars
       ELSE OutputPage(GenerationLoop(selected_schemas, business_data,
                                      business_type, NothingGenerated))
    /\ UNCHANGED business_type
    /\ \E button \in {"none", "back", "edit"} :
        step' = CASE button = "back" -> 3
                  [] button = "edit" -> 1
                  [] OTHER -> 4
    /\ UNCHANGED <<business_data, selected_schemas, session_lists, customized>>
    /\ UNCHANGED <<urlVars, cleanVars, genVars>>

Next ==
    \/ Step1BusinessInfo
    \/ Step2SelectSchemas
    \/ Step3Customize
    \/ Step4Output
    \/ StartOver

Spec == Init /\ [][Next]_vars

(***************************************************************************)
(* Claims about the output step (Spec)                                     *)
(***************************************************************************)
\* C9: on the page of the output step, an error line blocks export: with
\* at least one error line the ZIP button is not shown, and no "Download
\* JSON" button is shown for the document of a key that has an error line;
\* with warning lines alone, or no line, the ZIP button and the button of
\* every document are shown.
C9_ErrorsBlockExport ==
    shown = 4 =>
        /\ all_errors # <<>> =>
                /\ ~zip_offered
                /\ \A i \in DOMAIN all_errors :
                        Generate(all_errors[i][1], business_data,
                                 business_type).file_key \notin json_offered
        /\ all_errors = <<>> =>
                /\ zip_offered <=> DOMAIN schemas # {}
                /\ json_offered = DOMAIN schemas

\* The orders the keys of selected can be listed in.
Orderings(selected) ==
    {order \in [DOMAIN selected -> Selected(selected)] :
        \A i, j \in DOMAIN selected : order[i] = order[j] => i = j}

\* C10: on the page of the output step, and in whatever order the loop
\* takes the selected keys, the documents are exactly those of the keys
\* whose generator did not raise, one per key, and the keys whose generator
\* raised are the ones reported.
C10_FailureDoesNotAbortOthers ==
    (step = 4 /\ shown = 4) =>
        \A order \in Orderings(selected_schemas) :
            LET out == GenerationLoop(order, business_data, business_type,
                                      NothingGenerated)
                raised == {key \in Selected(selected_schemas) :
                            Generate(key, business_data, business_type).schema = Raised}
                kept == Selected(selected_schemas) \ raised
            IN  /\ Selected(out.failed) = raised
                /\ Cardinality(DOMAIN out.schemas) = Cardinality(kept)
                /\ \A key \in kept :
                    LET generated == Generate(key, business_data, business_type)
                    IN  /\ generated.file_key \in DOMAIN out.schemas
                        /\ out.schemas[generated.file_key] = generated.schema
                /\ order = selected_schemas =>
                        schemas = out.schemas /\ failed = out.failed

\* Two keys are selected, the generator of the pricing page raised on the
\* price "1.2.3", and the document of the other key is on the page.
C10_Witness ==
    /\ step = 4 /\ shown = 4
    /\ Len(selected_schemas) = 2
    /\ failed = <<"saas_pricing">>
    /\ Cardinality(DOMAIN schemas) = 1
    /\ "pricing" \notin DOMAIN schemas

(***************************************************************************)
(* SpecValidate: the validators called on records that fail few checks or  *)
(* pass few                                                                *)
(***************************************************************************)
Validators ==
    {"validate_business_data", "validate_local_business",
     "validate_organization", "validate_person", "validate_service",
     "validate_blog_post", "validate_faq", "validate_product",
     "validate_saas"}

\* Every field a validator reads.
ValidatorFields ==
    {"business_name", "website_url", "description", "same_as", "knows_about",
     "logo_url", "image_url", "telephone", "street_address", "city",
     "country", "opening_hours", "has_map", "cities", "postal_codes",
     "price_range", "email", "founding_date", "founder_name", "person_name",
     "person_same_as", "person_knows_about", "job_title", "service_name",
     "service_page_url", "service_description", "post_title", "post_url",
     "date_published", "post_image", "mentions", "questions", "product_name",
     "product_image", "product_images", "price", "currency",
     "product_description", "sku", "gtin13", "aggregate_rating_value",
     "pricing_tiers", "app_name", "app_url", "app_category"}

\* A value of the field k that passes every check that reads k.
SoundValue(k) ==
    CASE k = "same_as" -> Lst(<<Str(S("g.page/a"))>>)
      [] k = "knows_about" ->
            Lst(<<Dct("name" :> Str(S("Pipes")) @@ "wikidata_id" :> Str(S("Q1")))>>)
      [] k = "questions" ->
            Lst(<<Dct("question" :> Str(S("Why?")) @@ "answer" :> Str(S("So")))>>)
      [] OTHER -> FieldValue(k)

\* A value of the field k that fails the checks on k although the field is
\* filled in: blanks in a text field, profiles without a Google Business
\* Profile, topics without a Wikidata id, a pair without its answer.
UnsoundValue(k) ==
    CASE k = "same_as" -> Lst(<<Str(S("fb/a")), EmptyStr>>)
      [] k = "knows_about" -> Lst(<<Dct("name" :> Str(S("Pipes")))>>)
      [] k = "questions" ->
            Lst(<<Dct("question" :> Str(S("Why?")) @@ "answer" :> Str(S(" "))),
                  Dct("answer" :> Str(S("So")))>>)
      [] FieldValue(k).t = "list" -> EmptyList
      [] OTHER -> Str(S(" "))

\* The record on which every validator returns no issue.
Sound == Dct([k \in ValidatorFields |-> SoundValue(k)])

\* Records that lack up to two fields of the record that passes
\* everything, records that have one field filled in with a value that
\* fails, and records that have up to two fields.
ValidatorInputs ==
    LET few == {{}} \cup {{j, k} : j, k \in ValidatorFields}
    IN  {Dct([k \in ValidatorFields \ ks |-> SoundValue(k)]) : ks \in few}
        \cup {Dct([k \in ValidatorFields |->
                    IF k = j THEN UnsoundValue(k) ELSE SoundValue(k)]) :
                j \in ValidatorFields}
        \cup {Dct([k \in ks |-> SoundValue(k)]) : ks \in few}

InitValidate ==
    /\ facts \in ValidatorInputs
    /\ snapshot = facts
    /\ called = "none"
    /\ returned = Unset
    /\ calls = 0
    /\ earlier = Unset
    /\ UrlIdle /\ CleanIdle /\ AppIdle

NextValidate ==
    \/ ValidateBusinessData \/ ValidateLocalBusiness \/ ValidateOrganization
    \/ ValidatePerson \/ ValidateService \/ ValidateBlogPost \/ ValidateFaq
    \/ ValidateProduct \/ ValidateSaas

SpecValidate == InitValidate /\ [][NextValidate]_vars

(***************************************************************************)
(* Claims about the validators' checklists (SpecValidate)                  *)
(***************************************************************************)
\* One "if ...: issues.append(ValidationIssue(level, field, ...))" of a
\* validator: the issue it appends and the fields its condition reads.
Chk(level, field, reads) == [level |-> level, field |-> field, reads |-> reads]

BusinessChecks ==
    <<Chk("error", "business_name", {"business_name"}),
      Chk("error", "website_url", {"website_url"}),
      Chk("warning", "description", {"description"}),
      Chk("warning", "same_as", {"same_as"}),
      Chk("warning", "knows_about", {"knows_about"}),
      Chk("warning", "logo_url", {"logo_url"}),
      Chk("warning", "image_url", {"image_url"})>>

\* The two checks of validate_faq on each question, in the loop's order.
QuestionChecks(questions) ==
    [n \in 1..(2 * Len(questions)) |->
        IF n % 2 = 1
        THEN Chk("error", "questions[" \o ToString((n - 1) \div 2) \o "].question",
                 {"questions"})
        ELSE Chk("error", "questions[" \o ToString((n - 1) \div 2) \o "].answer",
                 {"questions"})]

\* The checks of the validator name in the order of its source, on a
\* record data (validate_faq has two checks for each question of data).
Checklist(name, data) ==
    CASE name = "validate_business_data" -> BusinessChecks
      [] name = "validate_local_business" ->
            BusinessChecks
            \o <<Chk("error", "telephone", {"telephone"}),
                 Chk("error", "address", {"street_address", "city"}),
                 Chk("warning", "country", {"country"}),
                 Chk("warning", "opening_hours", {"opening_hours"}),
                 Chk("warning", "has_map", {"has_map"}),
                 Chk("warning", "area_served", {"cities", "postal_codes"}),
                 Chk("warning", "price_range", {"price_range"})>>
      [] name = "validate_organization" ->
            BusinessChecks
            \o <<Chk("warning", "contact", {"email", "telephone"}),
                 Chk("warning", "founding_date", {"founding_date"})>>
      [] name = "validate_person" ->
            <<Chk("warning", "founder_name", {"founder_name", "person_name"}),
              Chk("warning", "person_same_as", {"person_same_as"}),
              Chk("warning", "person_knows_about",
                  {"person_knows_about", "knows_about"}),
              Chk("warning", "job_title", {"job_title"})>>
      [] name = "validate_service" ->
            <<Chk("error", "service_name", {"service_name"}),
              Chk("warning", "service_page_url", {"service_page_url"}),
              Chk("warning", "service_description", {"service_description"})>>
      [] name = "validate_blog_post" ->
            <<Chk("error", "post_title", {"post_title"}),
              Chk("error", "post_url", {"post_url"}),
              Chk("error", "date_published", {"date_published"}),
              Chk("error", "post_image", {"post_image"}),
              Chk("warning", "author", {"founder_name", "person_name"}),
              Chk("warning", "mentions", {"mentions"})>>
      [] name = "validate_faq" ->
            <<Chk("error", "questions", {"questions"})>>
            \o QuestionChecks(GetL(data, "questions").l)
      [] name = "validate_product" ->
            <<Chk("error", "product_name", {"product_name"}),
              Chk("error", "product_image", {"product_image", "product_images"}),
              Chk("error", "price", {"price"}),
              Chk("error", "currency", {"currency"}),
              Chk("warning", "product_description", {"product_description"}),
              Chk("warning", "sku", {"sku", "gtin13"}),
              Chk("warning", "aggregate_rating", {"aggregate_rating_value"})>>
      [] name = "validate_saas" ->
            <<Chk("error", "app_name", {"app_name", "business_name"}),
              Chk("error", "app_url", {"app_url", "website_url"}),
              Chk("warning", "pricing_tiers", {"pricing_tiers"}),
              Chk("warning", "app_category", {"app_category"})>>

\* The issues the validator name returns on data.
Run(name, data) ==
    CASE name = "validate_business_data" -> validate_business_data(data)
      [] name = "validate_local_business" -> validate_local_business(data)
      [] name = "validate_organization" -> validate_organization(data)
      [] name = "validate_person" -> validate_person(data)
      [] name = "validate_service" -> validate_service(data)
      [] name = "validate_blog_post" -> validate_blog_post(data)
      [] name = "validate_faq" -> validate_faq(data)
      [] name = "validate_product" -> validate_product(data)
      [] name = "validate_saas" -> validate_saas(data)

\* The issue of the check c is among issues.
Reported(c, issues) == \E j \in DOMAIN issues : issues[j].field = c.field

\* data with every field outside ks removed: every check that reads none
\* of ks fails.
Alone(data, ks) == Dct([k \in DOMAIN data.d \cap ks |-> data.d[k]])

\* data with every field outside ks given a value that passes: every check
\* that reads none of ks passes.
Among(data, ks) ==
    Dct([k \in (ValidatorFields \ ks) \cup (DOMAIN data.d \cap ks) |->
            IF k \in ks THEN data.d[k] ELSE SoundValue(k)])

\* issues holds the issues of checks of the list, each check at most once
\* and with its level, in the order of the list.
InDeclaredOrder(issues, checks) ==
    LET raised == SelectSeq(checks, LAMBDA c : Reported(c, issues))
    IN  issues = [j \in DOMAIN raised |->
                     ValidationIssue(raised[j].level, raised[j].field)]

\* A validator has returned: the call made is a validator's.
ValidatorReturned == called \in Validators /\ returned.t = "issues"

\* The check c of the validator name is reported on data exactly when it
\* is reported on the records that agree with data on the fields in keep
\* and on which the other checks all fail, or all pass.
Independent(name, c, data, keep) ==
    /\ Reported(c, Run(name, data)) <=> Reported(c, Run(name, Alone(data, keep)))
    /\ Reported(c, Run(name, data)) <=> Reported(c, Run(name, Among(data, keep)))

\* The statement as the specification has it, for all nine validators:
\* the issues come in declaration order, one for each failed check, and
\* whether a check is reported depends on the fields that check reads
\* alone.  validate_person returns after its first check when no name is
\* given, so its other three checks are reported or not with the name.
C11_EveryValidatorRunsEveryCheck ==
    ValidatorReturned =>
        LET checks == Checklist(called, facts)
        IN  /\ InDeclaredOrder(returned.l, checks)
            /\ \A i \in DOMAIN checks :
                  Independent(called, checks[i], facts, checks[i].reads)

NameFields == {"founder_name", "person_name"}

\* C11: every validator but validate_person evaluates all the checks of
\* its checklist on every call: the list returned holds one issue for each
\* failed check, in declaration order, whichever other checks failed.
\* validate_person returns the founder_name warning alone when neither a
\* founder name nor a person name is given, and otherwise one issue for
\* each failed check among its other three, in declaration order.
C11_ChecksAreIndependent ==
    ValidatorReturned =>
        LET checks == Checklist(called, facts)
            unnamed == Blank(facts, "founder_name") /\ Blank(facts, "person_name")
        IN  /\ InDeclaredOrder(returned.l, checks)
            /\ called # "validate_person" =>
                  \A i \in DOMAIN checks :
                      Independent(called, checks[i], facts, checks[i].reads)
            /\ called = "validate_person" =>
                  /\ unnamed <=>
                        returned.l = <<ValidationIssue("warning", "founder_name")>>
                  /\ \A i \in DOMAIN checks \ {1} :
                        Independent(called, checks[i], facts,
                                    checks[i].reads \cup NameFields)

\* validate_local_business has reported a failed business check and a
\* failed check of its own, and nothing else, on the record that fails
\* just these two.
C11_Witness ==
    /\ called = "validate_local_business"
    /\ returned.t = "issues"
    /\ Reported(Chk("error", "business_name", {}), returned.l)
    /\ Reported(Chk("error", "telephone", {}), returned.l)
    /\ Len(returned.l) = 2
    /\ facts = Dct([k \in ValidatorFields \ {"business_name", "telephone"} |->
                        SoundValue(k)])

(***************************************************************************)
(* Claims about one record given to a generator and to its validator       *)
(* (SpecGen)                                                               *)
(***************************************************************************)
\* The record supplies the field k: a text that is not blank.
Supplied(data, k) == GetS(data, k).t = "str" /\ ~Blank(data, k)

\* A record with business name, website URL, telephone, city and country
\* and no logo.
LocalWithoutLogo(data) ==
    /\ \A k \in {"business_name", "website_url", "telephone", "city", "country"} :
          Supplied(data, k)
    /\ GetS(data, "logo_url") = EmptyStr

\* C12: on a record that supplies business name, website URL, telephone,
\* city and country but no logo, generate_local_business returns a document
\* whose @id is normalize_url(website_url) + "/#organization", whose
\* address.addressLocality is the city and which has no logo key, and
\* validate_local_business returns no error for telephone or address and a
\* warning for the logo.
C12_LocalBusinessWithoutLogo ==
    LocalWithoutLogo(facts) =>
        /\ called = "generate_local_business" =>
              /\ returned.t = "dict"
              /\ GetN(returned, "@id")
                    = Str(normalize_url(GetS(facts, "website_url")).s
                            \o S("/#organization"))
              /\ GetN(GetN(returned, "address"), "addressLocality")
                    = GetS(facts, "city")
              /\ "logo" \notin DOMAIN returned.d
        /\ called = "validate_local_business" =>
              /\ \A j \in DOMAIN returned.l :
                    returned.l[j].level = "error" =>
                        returned.l[j].field \notin {"telephone", "address"}
              /\ \E j \in DOMAIN returned.l :
                    returned.l[j] = ValidationIssue("warning", "logo_url")

\* The record has zero question/answer pairs: no questions key, or an
\* empty list.
NoPairs(data) == GetL(data, "questions") = EmptyList

\* C13: on a record with zero question/answer pairs validate_faq returns
\* exactly one issue, of severity error, and generate_faq returns a
\* document with no mainEntity key.
C13_NoQuestions ==
    NoPairs(facts) =>
        /\ called = "validate_faq" =>
              /\ Len(returned.l) = 1
              /\ returned.l[1].level = "error"
        /\ called = "generate_faq" =>
              /\ returned.t = "dict"
              /\ "mainEntity" \notin DOMAIN returned.d

\* generate_faq has returned a FAQPage for the record whose question list
\* was emptied.
C13_Witness ==
    /\ called = "generate_faq"
    /\ facts = Blanked(Rich, "questions")
    /\ "questions" \in DOMAIN facts.d
    /\ GetN(returned, "@type") = Str(S("FAQPage"))

(***************************************************************************)
(* SpecBuild: the entity builders of base.py, and the generators that      *)
(* enclose them, called on records of cities, opening hours and numbers    *)
(***************************************************************************)
\* Business names: one with brand words, one whose words are short.
BrandedNames == {Str(S("Acme Plumbing")), Str(S("Joe Co"))}

\* Candidate cities: plain names, a name with digits, names that begin
\* with a word of a business name, a county, a meta-name.
CandidateCities ==
    {Str(S("Los Angeles")), Str(S("Area 51")), Str(S("Acme Heights")),
     Str(S("acme")), Str(S("Reno County")), Str(S("Locations")),
     Str(S("Joe Town"))}

\* Lists of one or two candidate cities.
CityLists ==
    {Lst(<<c>>) : c \in CandidateCities}
    \cup {Lst(<<c1, c2>>) : c1, c2 \in CandidateCities}

AreaInputs ==
    {Dct(name @@ cities @@ codes @@ country) :
        name \in OptField("business_name", BrandedNames),
        cities \in OptField("cities", CityLists),
        codes \in OptField("postal_codes", {Lst(<<Str(S("89501"))>>)}),
        country \in OptField("country", {Str(S("US"))})}

\* One row of the opening-hours form: {day, opens, closes}.
HoursRow(day, opens, closes) ==
    Dct("day" :> Str(S(day)) @@ "opens" :> Str(S(opens))
        @@ "closes" :> Str(S(closes)))

\* Rows with and without a day, of equal and of different hours, open
\* all day written both ways, and a row with no hours of its own.
HoursRows ==
    {HoursRow("Mon", "09:00", "17:00"), HoursRow("Tue", "00:00", "23:59"),
     HoursRow("Wed", "00:00", "24:00"), HoursRow("", "10:00", "14:00"),
     HoursRow("Sat", "10:00", "14:00"), Dct("day" :> Str(S("Thu")))}

\* Monday to Friday 09:00-17:00 and Saturday 10:00-14:00.
WorkingWeek ==
    Lst(<<HoursRow("Mon", "09:00", "17:00"), HoursRow("Tue", "09:00", "17:00"),
          HoursRow("Wed", "09:00", "17:00"), HoursRow("Thu", "09:00", "17:00"),
          HoursRow("Fri", "09:00", "17:00"), HoursRow("Sat", "10:00", "14:00")>>)

\* The longest list of rows, the working week apart.
MaxHours == 3

HoursInputs ==
    {Dct("opening_hours" :> hours) :
        hours \in {WorkingWeek}
                  \cup {Lst(l) : l \in UNION {[1..n -> HoursRows] : n \in 0..MaxHours}}}

\* Values of a coordinate: texts float() accepts and texts it does not,
\* blank, None, numbers and a list.
CoordinateValues ==
    {Str(S("39.5")), Str(S("-119.8")), Str(S("N/A")), EmptyStr, None,
     IntV(7), IntV(0), Lst(<<Str(S("1"))>>)}

GeoInputs ==
    {Dct(lat @@ lng @@ radius) :
        lat \in OptField("latitude", CoordinateValues),
        lng \in OptField("longitude", CoordinateValues),
        radius \in OptField("service_radius", {Str(S("50")), Str(S("far")), EmptyStr})}

\* Rating values and review counts: numbers as text, with and without
\* commas and a decimal point, texts that are no number, blank, None, a
\* number.
RatingValues == {Str(S("4.8")), Str(S("4")), Str(S("N/A")), EmptyStr, None}
RatingCounts ==
    {Str(S("1,203")), Str(S("12")), Str(S("N/A")), Str(S("1.5")), Str(S(",")),
     EmptyStr, IntV(7)}

RatingInputs ==
    {Dct(value @@ count) :
        value \in OptField("aggregate_rating_value", RatingValues),
        count \in OptField("aggregate_rating_count", RatingCounts)}

\* One service row: a name and, unless it is blank, a URL.
ServiceRow(name, link) ==
    Dct(IF link = "" THEN "name" :> Str(S(name))
        ELSE "name" :> Str(S(name)) @@ "url" :> Str(S(link)))

\* Service rows: current pages, deprecated pages written four ways (the
\* marker in either form and case, with a trailing slash, followed by a
\* query string), a page whose last segment only ends in "old", a row
\* without a name and a row without a URL.
ServiceRows ==
    {ServiceRow("Drains", "https://a.io/drains"),
     ServiceRow("Boilers", "https://a.io/boilers-old"),
     ServiceRow("Pipes", "https://a.io/Pipes_OLD/"),
     ServiceRow("Leaks", "https://a.io/leaks-old?ref=nav"),
     ServiceRow("Gold", "https://a.io/gold"),
     ServiceRow("", "https://a.io/taps"),
     ServiceRow("Roofs", "")}

\* Records of up to two service rows.
CatalogInputs ==
    {Dct("services" :> Lst(l)) : l \in SeqsUpTo(ServiceRows, 2)}

BuilderInputs ==
    AreaInputs \cup HoursInputs \cup GeoInputs \cup RatingInputs \cup CatalogInputs

InitBuild ==
    /\ facts \in BuilderInputs
    /\ snapshot = facts
    /\ called = "none"
    /\ returned = Unset
    /\ calls = 0
    /\ earlier = Unset
    /\ UrlIdle /\ CleanIdle /\ AppIdle

\* make_geo and make_opening_hours are called as the generators call them.
MakeGeo ==
    CallOn("make_geo",
           make_geo(GetS(facts, "latitude"), GetS(facts, "longitude")), facts)
MakeOpeningHours ==
    CallOn("make_opening_hours",
           make_opening_hours(GetL(facts, "opening_hours")), facts)

\* make_has_offer_catalog is called as generate_local_business calls it.
MakeHasOfferCatalog ==
    CallOn("make_has_offer_catalog",
           make_has_offer_catalog(
               GetL(facts, "services"),
               build_id(normalize_url(GetS(facts, "website_url")), S("organization")),
               Str(Strip(Fmt(GetS(facts, "business_name")) \o S(" Services")))),
           facts)

NextBuild ==
    \/ MakeAreaServed \/ MakeOpeningHours \/ MakeGeo \/ MakeAggregateRating
    \/ MakeServiceArea \/ MakeHasOfferCatalog
    \/ GenerateOrganization \/ GenerateLocalBusiness \/ GenerateHomepage

SpecBuild == InitBuild /\ [][NextBuild]_vars

(***************************************************************************)
(* Claims about the entity builders (SpecBuild)                            *)
(***************************************************************************)
\* The entries of an areaServed value: a list of places, one place, none.
AreaEntries(area) ==
    IF area.t = "list" THEN area.l
    ELSE IF area = EmptyDict THEN <<>> ELSE <<area>>

\* The names of the places of an areaServed value that are among cities,
\* in order.
CityNames(area, cities) ==
    LET named == SelectSeq(AreaEntries(area),
                           LAMBDA e : /\ "name" \in DOMAIN e.d
                                      /\ \E i \in DOMAIN cities : cities[i] = e.d["name"])
    IN  [i \in DOMAIN named |-> named[i].d["name"]]

\* The city has a digit.
HasDigit(city) == \E i \in DOMAIN city.s : IsDigit(city.s[i])

\* The first word of the city is, whatever the case of its letters, a word
\* of more than 3 characters of the business name.
BeginsWithBrand(city, business_name) ==
    /\ Words(city.s) # <<>>
    /\ \E i \in DOMAIN Words(business_name.s) :
          /\ Len(Words(business_name.s)[i]) > 3
          /\ Lower(Words(business_name.s)[i]) = Lower(Words(city.s)[1])

\* The brand words make_area_served takes from the business name.
BrandWordsOf(data) ==
    {Lower(w) : w \in {Words(GetS(data, "business_name").s)[i] :
                        i \in {j \in DOMAIN Words(GetS(data, "business_name").s) :
                                 Len(Words(GetS(data, "business_name").s)[j]) > 3}}}

\* C14: make_area_served keeps a candidate city exactly when it passes the
\* plausibility filter: the places named by a candidate are the candidates
\* that pass, in order; a city with a digit and a city whose first word is
\* a word of the business name of more than 3 characters are not among
\* them; "Los Angeles" is, for the business "Acme Plumbing".
C14_KeepsPlausibleCities ==
    called = "make_area_served" =>
        LET cities == GetL(facts, "cities").l
            business_name == GetS(facts, "business_name")
            kept == CityNames(returned, cities)
        IN  /\ kept = SelectSeq(cities, LAMBDA c :
                                    _is_valid_place_name(c, BrandWordsOf(facts)))
            /\ \A i \in DOMAIN cities :
                  (HasDigit(cities[i]) \/ BeginsWithBrand(cities[i], business_name))
                      => \A j \in DOMAIN kept : kept[j] # cities[i]
            /\ (business_name = Str(S("Acme Plumbing"))
                    /\ \E i \in DOMAIN cities : cities[i] = Str(S("Los Angeles")))
                  => \E j \in DOMAIN kept : kept[j] = Str(S("Los Angeles"))

\* make_area_served has dropped "Acme Heights" and kept "Los Angeles" for
\* the business "Acme Plumbing".
C14_Witness ==
    /\ called = "make_area_served"
    /\ GetS(facts, "business_name") = Str(S("Acme Plumbing"))
    /\ GetL(facts, "cities") = Lst(<<Str(S("Acme Heights")), Str(S("Los Angeles"))>>)
    /\ AreaEntries(returned) # <<>>
    /\ CityNames(returned, GetL(facts, "cities").l) = <<Str(S("Los Angeles"))>>

\* The entries of the record's opening hours that have a day.
EntriesWithDay == SelectSeq(GetL(facts, "opening_hours").l,
                            LAMBDA h : Truthy(GetN(h, "day")))

\* The (opens, closes) pair of an input entry, 09:00 and 17:00 standing
\* in for hours not given.
InputPair(h) ==
    <<Get(h, "opens", Str(S("09:00"))), Get(h, "closes", Str(S("17:00")))>>

AllDayGiven == <<Str(S("00:00")), Str(S("23:59"))>>
AllDayEmitted == <<Str(S("00:00")), Str(S("24:00"))>>

\* The pair under which an entry is emitted.
EmittedPair(h) == IF InputPair(h) = AllDayGiven THEN AllDayEmitted ELSE InputPair(h)

\* The (opens, closes) pair of an emitted specification.
SpecPair(spec) == <<GetN(spec, "opens"), GetN(spec, "closes")>>

\* dayOfWeek of a specification holds days: one day as it is, more as a list.
HoldsDays(spec, days) ==
    /\ days # <<>>
    /\ GetN(spec, "dayOfWeek") = IF Len(days) > 1 THEN Lst(days) ELSE days[1]

\* The days, in input order, of the entries for which pair_of gives pair.
DaysOf(pair, pair_of(_)) ==
    LET same == SelectSeq(EntriesWithDay, LAMBDA h : pair_of(h) = pair)
    IN  [i \in DOMAIN same |-> GetN(same[i], "day")]

\* The statement as the specification has it: one specification for each
\* distinct (opens, closes) pair of the input entries that have a day.
\* Entries given as 00:00-23:59 and as 00:00-24:00 are two input pairs and
\* come out as one specification.
C15_OneSpecificationPerInputPair ==
    called = "make_opening_hours" =>
        /\ Len(returned.l) = Cardinality({InputPair(EntriesWithDay[i]) :
                                            i \in DOMAIN EntriesWithDay})
        /\ \A k \in DOMAIN returned.l :
              HoldsDays(returned.l[k], DaysOf(SpecPair(returned.l[k]), EmittedPair))
        /\ facts = Dct("opening_hours" :> WorkingWeek) => Len(returned.l) = 2

\* C15: make_opening_hours consolidates by hours: the output has exactly
\* one OpeningHoursSpecification for each distinct pair under which the
\* entries that have a day are emitted (the input pair, 00:00-23:59 counted
\* as 00:00-24:00); its dayOfWeek holds the days of the entries of that
\* pair in input order, one day as it is and more as a list; entries
\* without a day contribute nothing; Monday to Friday 09:00-17:00 and
\* Saturday 10:00-14:00 give exactly 2 specifications.
C15_OneSpecificationPerEmittedPair ==
    called = "make_opening_hours" =>
        /\ Len(returned.l) = Cardinality({EmittedPair(EntriesWithDay[i]) :
                                            i \in DOMAIN EntriesWithDay})
        /\ \A j, k \in DOMAIN returned.l :
              j # k => SpecPair(returned.l[j]) # SpecPair(returned.l[k])
        /\ \A k \in DOMAIN returned.l :
              HoldsDays(returned.l[k], DaysOf(SpecPair(returned.l[k]), EmittedPair))
        /\ facts = Dct("opening_hours" :> WorkingWeek) => Len(returned.l) = 2

\* make_opening_hours has returned the two specifications of the working
\* week: the five weekdays as a list, Saturday as a single day.
C15_Witness ==
    /\ called = "make_opening_hours"
    /\ facts = Dct("opening_hours" :> WorkingWeek)
    /\ Len(returned.l) = 2
    /\ GetN(returned.l[1], "dayOfWeek")
          = Lst(<<Str(S("Mon")), Str(S("Tue")), Str(S("Wed")), Str(S("Thu")),
                  Str(S("Fri"))>>)
    /\ GetN(returned.l[2], "dayOfWeek") = Str(S("Sat"))

\* C16: make_opening_hours emits the pair 00:00-23:59 as 00:00-24:00 and
\* every other pair as it is given, so the pairs of the output are those of
\* the entries that have a day with this one change, and no specification
\* has opens 00:00 with closes 23:59.
C16_AllDayClosesAtMidnight ==
    called = "make_opening_hours" =>
        /\ {SpecPair(returned.l[k]) : k \in DOMAIN returned.l}
              = {EmittedPair(EntriesWithDay[i]) : i \in DOMAIN EntriesWithDay}
        /\ \A k \in DOMAIN returned.l : SpecPair(returned.l[k]) # AllDayGiven

\* make_opening_hours has emitted a Tuesday given as 00:00-23:59 with
\* closes 24:00, beside a Monday left at 09:00-17:00.
C16_Witness ==
    /\ called = "make_opening_hours"
    /\ GetL(facts, "opening_hours")
          = Lst(<<HoursRow("Tue", "00:00", "23:59"), HoursRow("Mon", "09:00", "17:00")>>)
    /\ Len(returned.l) = 2
    /\ SpecPair(returned.l[1]) = AllDayEmitted
    /\ GetN(returned.l[1], "dayOfWeek") = Str(S("Tue"))
    /\ SpecPair(returned.l[2]) = <<Str(S("09:00")), Str(S("17:00"))>>

\* The value is parseable as a number: float() accepts it.
ParsesAsNumber(v) == ~FloatFails(v)

\* The text of a review count once its commas are removed.
WithoutCommas(count) == RemoveChar(Fmt(count), ",")

\* The count is parseable as an integer after removing commas.
ParsesAsCount(count) == IsIntText(WithoutCommas(count))

\* C17: given a rating value parseable as a number and a review count
\* parseable as an integer after removing commas, make_aggregate_rating
\* returns a rating whose reviewCount is that integer, with bestRating 5
\* and worstRating 1 ("4.8" and "1,203" give 1203); given a value or a
\* count that is not parseable, such as "N/A", it returns the empty result.
C17_RatingFromTexts ==
    called = "make_aggregate_rating" =>
        LET value == GetS(facts, "aggregate_rating_value")
            count == GetS(facts, "aggregate_rating_count")
        IN  /\ (Truthy(value) /\ Truthy(count)
                    /\ ParsesAsNumber(value) /\ ParsesAsCount(count))
                  => /\ returned.t = "dict"
                     /\ GetN(returned, "@type") = Str(S("AggregateRating"))
                     /\ GetN(returned, "ratingValue") = ToFloat(value)
                     /\ GetN(returned, "reviewCount")
                           = IntV(IntOfText(WithoutCommas(count)))
                     /\ GetN(returned, "bestRating") = IntV(5)
                     /\ GetN(returned, "worstRating") = IntV(1)
            /\ (~ParsesAsNumber(value) \/ ~ParsesAsCount(count))
                  => returned = EmptyDict
            /\ (value = Str(S("4.8")) /\ count = Str(S("1,203")))
                  => GetN(returned, "reviewCount") = IntV(1203)
            /\ (value = Str(S("N/A")) \/ count = Str(S("N/A")))
                  => returned = EmptyDict

\* make_aggregate_rating has returned the rating of "4.8" and "1,203".
C17_Witness ==
    /\ called = "make_aggregate_rating"
    /\ GetS(facts, "aggregate_rating_value") = Str(S("4.8"))
    /\ GetS(facts, "aggregate_rating_count") = Str(S("1,203"))
    /\ GetN(returned, "reviewCount") = IntV(1203)
    /\ GetN(returned, "ratingValue") = Flt(48)

\* The number is present and parseable: the value is not empty and
\* float() accepts it.
Usable(v) == Truthy(v) /\ ~FloatFails(v)

\* The node of the returned document that carries the properties of the
\* business: the document itself, or the publisher of the home page's
\* website.
BusinessNode ==
    IF called = "generate_homepage"
    THEN GetN(GetN(returned, "isPartOf"), "publisher")
    ELSE returned

\* What the three numeric builders and the generators that enclose them
\* return on the record, when make_service_area needs a radius that is
\* parseable (radius_parsed) or one that is only present.
NumericBuilders(radius_parsed) ==
    LET lat == GetS(facts, "latitude")
        lng == GetS(facts, "longitude")
        radius == GetS(facts, "service_radius")
        value == GetS(facts, "aggregate_rating_value")
        count == GetS(facts, "aggregate_rating_count")
        point == Usable(lat) /\ Usable(lng)
        circle == /\ point
                  /\ IF radius_parsed THEN Usable(radius) ELSE Truthy(radius)
        rating == Usable(value) /\ Truthy(count) /\ ParsesAsCount(count)
    IN  /\ called = "make_geo" =>
              returned = IF point
                         THEN MkDict(<<
                                <<"@type", Str(S("GeoCoordinates"))>>,
                                <<"latitude", ToFloat(lat)>>,
                                <<"longitude", ToFloat(lng)>> >>)
                         ELSE EmptyDict
        /\ called = "make_service_area" =>
              returned = IF circle
                         THEN MkDict(<<
                                <<"@type", Str(S("GeoCircle"))>>,
                                <<"geoMidpoint", MkDict(<<
                                    <<"@type", Str(S("GeoCoordinates"))>>,
                                    <<"latitude", ToFloat(lat)>>,
                                    <<"longitude", ToFloat(lng)>> >>)>>,
                                <<"geoRadius", Str(Fmt(radius))>> >>)
                         ELSE EmptyDict
        /\ called = "make_aggregate_rating" =>
              IF rating
              THEN /\ returned.t = "dict"
                   /\ DOMAIN returned.d = {"@type", "ratingValue", "reviewCount",
                                           "bestRating", "worstRating"}
                   /\ returned.d["ratingValue"].t = "float"
                   /\ returned.d["reviewCount"].t = "int"
              ELSE returned = EmptyDict
        /\ called \in {"generate_local_business", "generate_homepage"} =>
              /\ returned.t = "dict"
              /\ "geo" \in DOMAIN BusinessNode.d <=> point
              /\ "serviceArea" \in DOMAIN BusinessNode.d <=> circle
              /\ "aggregateRating" \in DOMAIN BusinessNode.d <=> rating
        /\ called = "generate_organization" =>
              /\ returned.t = "dict"
              /\ "aggregateRating" \in DOMAIN returned.d <=> rating

\* The statement as the specification has it: a sub-object when every
\* number is present and parseable, the radius included, and the empty
\* result otherwise.  make_service_area never parses the radius.
C18_EveryNumberParsed == NumericBuilders(TRUE)

\* C18: make_geo, make_aggregate_rating and make_service_area never raise
\* on malformed numeric input: each returns a fully-formed sub-object when
\* its numbers are present and parseable and the empty result otherwise,
\* and the enclosing generator omits the property of an empty result.  The
\* numbers are latitude and longitude, rating value and review count; the
\* radius of make_service_area need only be present and is emitted as the
\* text it is given.
C18_MalformedNumbersGiveEmpty ==
    /\ called # "none" => returned # Raised
    /\ NumericBuilders(FALSE)

\* generate_local_business has returned a document without geo and without
\* serviceArea for a latitude that is no number.
C18_Witness ==
    /\ called = "generate_local_business"
    /\ GetS(facts, "latitude") = Str(S("N/A"))
    /\ GetS(facts, "longitude") = Str(S("-119.8"))
    /\ GetS(facts, "service_radius") = Str(S("50"))
    /\ returned.t = "dict"
    /\ "geo" \notin DOMAIN returned.d
    /\ "serviceArea" \notin DOMAIN returned.d

(***************************************************************************)
(* Claims about lists of the record: breadcrumbs and pricing tiers         *)
(* (SpecGen)                                                               *)
(***************************************************************************)
\* The breadcrumb items of the record that have a name, in list order.
NamedCrumbs ==
    SelectSeq(GetL(facts, "breadcrumb_items").l,
              LAMBDA item : Truthy(GetN(item, "name")))

\* C19: generate_breadcrumb emits one ListItem for each named breadcrumb
\* item, in list order, and the k-th emitted entry has position k:
\* positions are 1..n without gaps even when unnamed items were dropped.
C19_PositionsFollowFilteredOrder ==
    (called = "generate_breadcrumb" /\ Truthy(GetL(facts, "breadcrumb_items"))) =>
        LET emitted == GetL(returned, "itemListElement").l
        IN  /\ Len(emitted) = Len(NamedCrumbs)
            /\ \A k \in DOMAIN emitted :
                  /\ GetN(emitted[k], "@type") = Str(S("ListItem"))
                  /\ GetN(emitted[k], "name") = GetN(NamedCrumbs[k], "name")
                  /\ GetN(emitted[k], "position") = IntV(k)

\* The pricing tiers of the record whose price is a parseable number.
ParseableTiers ==
    SelectSeq(GetL(facts, "pricing_tiers").l,
              LAMBDA tier : Usable(GetN(tier, "price")))

\* The prices of those tiers, as multiples of 10^-FracDigits.
ParseablePrices ==
    [i \in DOMAIN ParseableTiers |-> ToFloat(GetN(ParseableTiers[i], "price")).m]

\* The aggregate offer of the returned document.
AggregateOfferOf(doc) ==
    IF called = "generate_saas_app" THEN GetN(doc, "offers")
    ELSE GetL(doc, "@graph").l[2]

\* C20: for a list of two or more pricing tiers, generate_saas_app and
\* generate_saas_pricing_page do not fail on a tier whose price is no
\* number, and lowPrice and highPrice of the aggregate offer are the
\* minimum and the maximum over the tiers whose price is a parseable
\* number (a number in generate_saas_app, its text in the pricing page).
C20_BoundsOverParseablePrices ==
    (/\ called \in {"generate_saas_app", "generate_saas_pricing_page"}
     /\ Len(GetL(facts, "pricing_tiers").l) >= 2) =>
        /\ returned # Raised
        /\ ParseablePrices # <<>> =>
              LET offer == AggregateOfferOf(returned)
                  low == MinOf(ParseablePrices)
                  high == MaxOf(ParseablePrices)
              IN  IF called = "generate_saas_app"
                  THEN /\ GetN(offer, "lowPrice") = Flt(low)
                       /\ GetN(offer, "highPrice") = Flt(high)
                  ELSE /\ GetN(offer, "lowPrice") = Str(FloatText(low))
                       /\ GetN(offer, "highPrice") = Str(FloatText(high))

\* The number of places make_area_served has to return for the record: its
\* plausible cities, and one more for its postal codes.
PlacesOf(data) ==
    Len(SelectSeq(GetL(data, "cities").l,
                  LAMBDA c : _is_valid_place_name(c, BrandWordsOf(data))))
    + (IF Truthy(GetL(data, "postal_codes")) THEN 1 ELSE 0)

UrlPath(u) ==
    LET bare == SplitFirst(SplitFirst(u, S("?")), S("#"))
        rest == IF Contains(bare, S("://"))
                THEN SubSeq(bare, Find(bare, S("://")) + 3, Len(bare))
                ELSE bare
    IN  IF ~Contains(bare, S("://")) THEN rest
        ELSE IF Contains(rest, S("/"))
        THEN SubSeq(rest, Find(rest, S("/")), Len(rest))
        ELSE <<>>

\* The last segment of the path of a URL, a trailing slash ignored.
LastPathSegment(u) == SplitLast(RStripSet(UrlPath(u), {"/"}), "/")

\* The service's URL is one of a deprecated page: its last path segment
\* ends in "-old" or "_old", whatever the case of the letters.
Deprecated(svc) ==
    \/ EndsWith(Lower(LastPathSegment(GetS(svc, "url").s)), S("-old"))
    \/ EndsWith(Lower(LastPathSegment(GetS(svc, "url").s)), S("_old"))

\* The services of the record that have a name and are not deprecated.
Qualifying(data) ==
    SelectSeq(GetL(data, "services").l,
              LAMBDA svc : Truthy(GetN(svc, "name")) /\ ~Deprecated(svc))

\* The names and URLs of the services offered in a catalog, in order.
Offered(catalog) ==
    IF catalog = EmptyDict THEN <<>>
    ELSE [i \in DOMAIN catalog.d["itemListElement"].l |->
            <<GetS(catalog.d["itemListElement"].l[i].d["itemOffered"], "name"),
              GetS(catalog.d["itemListElement"].l[i].d["itemOffered"], "url")>>]

\* C22: make_has_offer_catalog builds one entry, in input order, for each
\* service that has a name and whose URL's last path segment does not end
\* in "-old" or "_old"; it returns the empty mapping when no service
\* qualifies, and never a catalog without entries.
C22_CatalogOfCurrentNamedServices ==
    called = "make_has_offer_catalog" =>
        /\ Offered(returned) =
              [i \in DOMAIN Qualifying(facts) |->
                  <<GetS(Qualifying(facts)[i], "name"),
                    GetS(Qualifying(facts)[i], "url")>>]
        /\ Qualifying(facts) = <<>> => returned = EmptyDict
        /\ returned # EmptyDict =>
              "itemListElement" \in DOMAIN returned.d
              /\ returned.d["itemListElement"].l # <<>>

RECURSIVE Occurrences(_, _)
\* The number of non-overlapping occurrences of sub in s, from the left.
Occurrences(s, sub) ==
    IF Contains(s, sub)
    THEN 1 + Occurrences(SubSeq(s, Find(s, sub) + Len(sub), Len(s)), sub)
    ELSE 0

\* The anchor phrase of a link wrapped in the link.
Wrapped(link) ==
    S("<a href='") \o GetS(link, "url").s \o S("'>")
        \o GetS(link, "anchor_text").s \o S("</a>")

\* The questions of the record that generate_faq emits, in order.
EmittedQuestions == SelectSeq(GetL(facts, "questions").l, QuestionKept)

\* The answer text generate_faq has emitted for its i-th question.
AnswerText(i) ==
    returned.d["mainEntity"].l[i].d["acceptedAnswer"].d["text"].s

\* C23: in the answer text generate_faq emits, each anchor phrase that is
\* configured with a URL is wrapped in its link at most once, however
\* often the phrase occurs in the answer.
C23_AnchorLinkedAtMostOnce ==
    (called = "generate_faq" /\ returned.t = "dict"
        /\ "mainEntity" \in DOMAIN returned.d) =>
        \A i \in DOMAIN EmittedQuestions :
            \A j \in DOMAIN GetL(EmittedQuestions[i], "answer_links").l :
                LET link == GetL(EmittedQuestions[i], "answer_links").l[j]
                IN  (Truthy(GetS(link, "anchor_text")) /\ Truthy(GetS(link, "url")))
                        => Occurrences(AnswerText(i), Wrapped(link)) <= 1

\* The nodes a document describes: the nodes of its @graph, or the
\* document itself.
TopNodes(doc) ==
    IF doc.t = "dict" /\ "@graph" \in DOMAIN doc.d THEN doc.d["@graph"].l
    ELSE <<doc>>

\* The node is a page that carries an identifier: WebPage, AboutPage,
\* ContactPage, FAQPage, ...
IsPage(node) ==
    /\ node.t = "dict"
    /\ {"@id", "@type"} \subseteq DOMAIN node.d
    /\ node.d["@type"].t = "str"
    /\ EndsWith(node.d["@type"].s, S("Page"))

\* C24: in the documents of one run, two different entities never carry
\* the same @id: the pages of two different documents (the homepage's
\* WebPage and the service page's WebPage, say) have different
\* identifiers, and so have any two nodes of one @graph.
C24_IdentifiersCollisionFree ==
    shown = 4 =>
        /\ \A k1, k2 \in DOMAIN schemas :
              k1 # k2 =>
                \A i \in DOMAIN TopNodes(schemas[k1]), j \in DOMAIN TopNodes(schemas[k2]) :
                    (IsPage(TopNodes(schemas[k1])[i]) /\ IsPage(TopNodes(schemas[k2])[j]))
                        => TopNodes(schemas[k1])[i].d["@id"]
                              # TopNodes(schemas[k2])[j].d["@id"]
        /\ \A k \in DOMAIN schemas :
              \A i, j \in DOMAIN TopNodes(schemas[k]) :
                  (i # j /\ "@id" \in DOMAIN TopNodes(schemas[k])[i].d
                         /\ "@id" \in DOMAIN TopNodes(schemas[k])[j].d)
                      => TopNodes(schemas[k])[i].d["@id"] # TopNodes(schemas[k])[j].d["@id"]

\* No issue of the list is of error severity.
NoError(issues) == \A i \in DOMAIN issues : issues[i].level # "error"

\* For each schema type whose validator has error checks: its generator,
\* the issues its validator reports for the record, and the properties
\* of the document those error checks guard.
RequiredProperties(data) ==
    {[generator |-> "generate_local_business",
      issues |-> validate_local_business(data),
      paths |-> {<<"name">>, <<"url">>, <<"telephone">>, <<"address">>}],
     [generator |-> "generate_service_page",
      issues |-> validate_service(data),
      paths |-> {<<"mainEntity", "name">>}],
     [generator |-> "generate_blog_post",
      issues |-> validate_blog_post(data),
      paths |-> {<<"headline">>, <<"url">>, <<"datePublished">>, <<"image">>}],
     [generator |-> "generate_faq",
      issues |-> validate_faq(data),
      paths |-> {<<"mainEntity", "1", "name">>,
                 <<"mainEntity", "1", "acceptedAnswer", "text">>}],
     [generator |-> "generate_product",
      issues |-> validate_product(data),
      paths |-> {<<"name">>, <<"image">>, <<"offers", "price">>,
                 <<"offers", "priceCurrency">>}],
     [generator |-> "generate_saas_app",
      issues |-> validate_saas(data),
      paths |-> {<<"name">>, <<"url">>}]}

\* C25: whenever the validator of a schema type reports no error for the
\* record, the document its generator returns for the record has every
\* property the validator's error checks guard (name and url for
\* WebApplication; name, image, offers.price and offers.priceCurrency for
\* Product; ...).  A property the document has is not empty (C6).
C25_ValidatedRecordHasRequiredProperties ==
    \A r \in RequiredProperties(facts) :
        (called = r.generator /\ returned # Raised /\ NoError(r.issues))
            => \A path \in r.paths : HasPath(returned, path)

\* The fields that have a widget at step 1: the keys of the record that
\* "Next: Select Schemas" stores.
Step1FormFields ==
    DOMAIN Step1Record(EmptyDict, SessionDefaults, EmptyStr, EmptyStr).d

\* C26: pressing "Next" at step 1 leaves unchanged every field of the
\* session's facts record that has no step-1 form input: the fields merged
\* by the Fact-Cheat extraction (latitude, longitude,
\* aggregate_rating_value, ...) and the per-schema fields set at step 3.
C26_Step1NextKeepsOtherFields ==
    [][(step = 1 /\ step' = 2) =>
            \A k \in DOMAIN business_data.d \ Step1FormFields :
                /\ k \in DOMAIN business_data'.d
                /\ business_data'.d[k] = business_data.d[k]]_vars

\* The Offer entries listed under an aggregate offer.
ListedOffers(offer) == GetL(offer, "offers").l

\* C27: in every AggregateOffer that generate_saas_app and
\* generate_saas_pricing_page emit, offerCount is the number of Offer
\* entries listed under offers, tiers with an empty name or an empty price
\* included.
C27_OfferCountMatchesOffers ==
    (/\ called \in {"generate_saas_app", "generate_saas_pricing_page"}
     /\ returned # Raised
     /\ AggregateOfferOf(returned).t = "dict"
     /\ GetN(AggregateOfferOf(returned), "@type") = Str(S("AggregateOffer"))) =>
        GetN(AggregateOfferOf(returned), "offerCount")
            = IntV(Len(ListedOffers(AggregateOfferOf(returned))))

(***************************************************************************)
(* scraper.py: the business JSON-LD blocks of a page merged into one       *)
(* result (SpecScrape)                                                     *)
(***************************************************************************)
\* "if cond: result[k] = v"
SetIf(result, cond, k, v) == IF cond THEN Dct((k :> v) @@ result.d) ELSE result

\* "if s.get(from_key) and not result.get(k): result[k] = s[from_key]"
TakeFirst(result, s, from_key, k) ==
    SetIf(result, Truthy(GetN(s, from_key)) /\ ~Truthy(GetN(result, k)),
          k, GetN(s, from_key))

\* The days _parse_opening_hours knows, by their names and their URLs.
DayNames ==
    {"Monday", "Tuesday", "Wednesday", "Thursday", "Friday", "Saturday", "Sunday"}
day_map(day) ==
    IF day.t # "str" THEN EmptyStr
    ELSE IF \E n \in DayNames : day.s = S(n) THEN day
    ELSE IF \E n \in DayNames : day.s = S("https://schema.org/") \o S(n)
    THEN Str(SubSeq(day.s, Len(S("https://schema.org/")) + 1, Len(day.s)))
    ELSE EmptyStr

RECURSIVE FlatRows(_)
\* The rows of a list of lists of rows, in order.
FlatRows(ls) == IF ls = <<>> THEN <<>> ELSE Head(ls) \o FlatRows(Tail(ls))

\* def _parse_opening_hours(hours_data)
_parse_opening_hours(hours_data) ==
    LET entries == IF hours_data.t = "list" THEN hours_data.l ELSE <<hours_data>>
        rows(entry) ==
            IF entry.t # "dict" THEN <<>>
            ELSE LET given == GetL(entry, "dayOfWeek")
                     days == IF given.t = "str" THEN <<given>> ELSE given.l
                     opens == GetS(entry, "opens")
                     closes == GetS(entry, "closes")
                     kept == SelectSeq(days, LAMBDA day :
                                /\ Truthy(day_map(day))
                                /\ Truthy(opens) /\ Truthy(closes))
                 IN  [i \in DOMAIN kept |->
                        MkDict(<< <<"day", day_map(kept[i])>>, <<"opens", opens>>,
                                  <<"closes", closes>> >>)]
    IN  Lst(FlatRows([i \in DOMAIN entries |-> rows(entries[i])]))

\* The logo and image branches: the URL of a mapping, or the text itself.
UrlOf(v) == Get(v, "url", GetS(v, "contentUrl"))

\* The geo branch of _merge_from_schema (lines 258-261): both coordinates
\* are written under the guard of the latitude.
MergeGeo(result, s) ==
    LET geo == Get(s, "geo", EmptyDict)
    IN  IF geo.t = "dict" /\ ~Truthy(GetN(result, "latitude"))
        THEN Dct(("latitude" :> GetS(geo, "latitude"))
                 @@ ("longitude" :> GetS(geo, "longitude")) @@ result.d)
        ELSE result

\* The rating branch (lines 264-267): value and count are written under
\* the guard of the value.
MergeRating(result, s) ==
    LET rating == Get(s, "aggregateRating", EmptyDict)
    IN  IF rating.t = "dict" /\ ~Truthy(GetN(result, "aggregate_rating_value"))
        THEN Dct(("aggregate_rating_value" :> Str(Fmt(GetS(rating, "ratingValue"))))
                 @@ ("aggregate_rating_count" :> Str(Fmt(GetS(rating, "reviewCount"))))
                 @@ result.d)
        ELSE result

\* The address branch (lines 235-246).
MergeAddress(result, s) ==
    LET addr == Get(s, "address", EmptyDict)
    IN  IF addr.t = "dict" /\ Truthy(addr)
        THEN TakeFirst(TakeFirst(TakeFirst(TakeFirst(TakeFirst(result,
                addr, "streetAddress", "street_address"),
                addr, "addressLocality", "city"),
                addr, "addressRegion", "state"),
                addr, "postalCode", "postal_code"),
                addr, "addressCountry", "country")
        ELSE result

\* The logo branch (lines 216-221).
MergeLogo(result, s) ==
    LET logo == GetN(s, "logo")
    IN  IF Truthy(logo) /\ ~Truthy(GetN(result, "logo_url"))
        THEN SetIf(result, logo.t \in {"dict", "str"}, "logo_url",
                   IF logo.t = "dict" THEN UrlOf(logo) ELSE logo)
        ELSE result

\* The image branch (lines 224-231).
MergeImage(result, s) ==
    LET given == GetN(s, "image")
        image == IF given.t = "list" /\ given.l # <<>> THEN given.l[1] ELSE given
    IN  IF Truthy(given) /\ ~Truthy(GetN(result, "image_url"))
        THEN SetIf(result, image.t \in {"dict", "str"}, "image_url",
                   IF image.t = "dict" THEN UrlOf(image) ELSE image)
        ELSE result

\* The opening hours branch (lines 250-255).
MergeHours(result, s) ==
    LET hours == GetN(s, "openingHoursSpecification")
    IN  IF Truthy(hours) /\ ~Truthy(GetN(result, "opening_hours"))
        THEN SetIf(result, Truthy(_parse_opening_hours(hours)),
                   "opening_hours", _parse_opening_hours(hours))
        ELSE result

\* The sameAs branch (lines 270-274).
MergeSameAs(result, s) ==
    LET same_as == GetN(s, "sameAs")
        urls == IF same_as.t = "str" THEN <<same_as>> ELSE same_as.l
    IN  SetIf(result, Truthy(same_as) /\ ~Truthy(GetN(result, "same_as")),
              "same_as", Lst(SelectSeq(urls, Truthy)))

\* def _merge_from_schema(result, s): the result it leaves.
_merge_from_schema(result, s) ==
    MergeSameAs(MergeRating(MergeGeo(MergeHours(MergeAddress(MergeImage(MergeLogo(
        TakeFirst(TakeFirst(TakeFirst(TakeFirst(TakeFirst(TakeFirst(result,
            s, "telephone", "telephone"),
            s, "email", "email"),
            s, "priceRange", "price_range"),
            s, "hasMap", "has_map"),
            s, "name", "business_name"),
            s, "description", "description"),
        s), s), s), s), s), s), s)

\* The @type values scrape_business_page takes for a business.
BusinessTypeNames ==
    {"LocalBusiness", "Organization", "Plumber", "HVACBusiness",
     "HomeAndConstructionBusiness", "LegalService", "MedicalBusiness",
     "Dentist", "AutoRepair", "GeneralContractor"}

\* is_biz or "LocalBusiness" in str(types)  (lines 50-62)
IsBusiness(s) ==
    LET stype == GetS(s, "@type")
        types == IF stype.t = "list" THEN stype.l ELSE <<stype>>
    IN  \E i \in DOMAIN types :
            /\ types[i].t = "str"
            /\ \/ \E n \in BusinessTypeNames : types[i].s = S(n)
               \/ Contains(types[i].s, S("LocalBusiness"))

\* A JSON-LD block of the given @type and fields.
Block(type, fields) == Dct(("@type" :> Str(S(type))) @@ fields)

\* The blocks of a page: two businesses with every field, a business with
\* half a geo point and half a rating, a business with its name only, a
\* business with empty and ill-typed fields, opening hours, and a block
\* that is no business.
JsonLdBlocks ==
    {Block("LocalBusiness",
        "telephone" :> T("555") @@ "email" :> T("a@a.io")
        @@ "logo" :> T("a.io/l.png") @@ "image" :> Lst(<<T("a.io/i.png")>>)
        @@ "address" :> Dct("streetAddress" :> T("1 Main St")
                            @@ "addressLocality" :> T("Reno")
                            @@ "addressRegion" :> T("NV")
                            @@ "postalCode" :> T("89501")
                            @@ "addressCountry" :> T("US"))
        @@ "geo" :> Dct("latitude" :> T("39.5") @@ "longitude" :> T("-119.8"))
        @@ "aggregateRating" :> Dct("ratingValue" :> T("4.8") @@ "reviewCount" :> T("12"))
        @@ "sameAs" :> Lst(<<T("x.com/a"), EmptyStr>>)),
     Block("Plumber",
        "telephone" :> T("777") @@ "email" :> T("b@b.io")
        @@ "logo" :> Dct("url" :> T("b.io/l.png"))
        @@ "image" :> Dct("contentUrl" :> T("b.io/i.png"))
        @@ "address" :> Dct("streetAddress" :> T("2 Side St")
                            @@ "addressLocality" :> T("Elko"))
        @@ "geo" :> Dct("latitude" :> T("40.8") @@ "longitude" :> T("-115.7"))
        @@ "aggregateRating" :> Dct("ratingValue" :> T("4.0") @@ "reviewCount" :> IntV(3))
        @@ "sameAs" :> T("y.com/b")),
     Block("LocalBusiness",
        "geo" :> Dct("longitude" :> T("-119.8"))
        @@ "aggregateRating" :> Dct("reviewCount" :> T("12"))),
     Block("Organization", "name" :> T("Acme")),
     Block("Dentist",
        "telephone" :> EmptyStr @@ "address" :> EmptyDict @@ "geo" :> T("39.5,-119.8")
        @@ "aggregateRating" :> T("4.8") @@ "logo" :> Lst(<<T("c.io/l.png")>>)),
     Block("LocalBusiness",
        "openingHoursSpecification" :> Lst(<<
            Dct("dayOfWeek" :> Lst(<<T("Monday"), T("https://schema.org/Tuesday"), T("Mo")>>)
                @@ "opens" :> T("09:00") @@ "closes" :> T("17:00")),
            Dct("dayOfWeek" :> T("Sunday") @@ "opens" :> T("10:00"))>>)),
     Block("WebSite", "telephone" :> T("999") @@ "geo" :> EmptyDict)}

\* The most blocks on a page.
MaxBlocks == 3

\* facts is the list of the page's blocks, returned the result so far,
\* earlier the result before the last block, calls the blocks gone through.
InitScrape ==
    /\ facts \in {Lst(blocks) : blocks \in SeqsUpTo(JsonLdBlocks, MaxBlocks)}
    /\ snapshot = facts
    /\ called = "none"
    /\ returned = EmptyDict
    /\ calls = 0
    /\ earlier = Unset
    /\ UrlIdle /\ CleanIdle /\ AppIdle

\* One pass of "for s in schemas": the next block is merged into the
\* result when it is a business.
MergeFromSchema ==
    /\ facts.t = "list"
    /\ calls < Len(facts.l)
    /\ called' = "_merge_from_schema"
    /\ earlier' = returned
    /\ returned' = IF IsBusiness(facts.l[calls + 1])
                   THEN _merge_from_schema(returned, facts.l[calls + 1])
                   ELSE returned
    /\ calls' = calls + 1
    /\ UNCHANGED <<facts, snapshot, urlVars, cleanVars, appVars>>

NextScrape == MergeFromSchema

SpecScrape == InitScrape /\ [][NextScrape]_vars

\* The fields of the result the first block that has them decides.
FirstWinsFields ==
    {"telephone", "email", "street_address", "city", "state", "postal_code",
     "country", "logo_url", "image_url", "latitude", "longitude",
     "aggregate_rating_value", "aggregate_rating_count", "same_as"}

\* C28: when the scraper merges the business blocks of a page, the first
\* non-empty value found for a field wins: a field of the result that
\* holds a non-empty value is left as it is by every later block.
C28_FirstNonEmptyValueWins ==
    (called = "_merge_from_schema" /\ earlier # Unset) =>
        \A k \in FirstWinsFields :
            Truthy(GetN(earlier, k)) => GetN(returned, k) = GetN(earlier, k)

(***************************************************************************)
(* app.py, step 2: the checkboxes as the script draws them                 *)
(***************************************************************************)
\* prev_sel: st.session_state.get("selected_schemas", default_sel).  The
\* session init installs the key "selected_schemas" in every session, so
\* the stored list is read and default_sel is never the answer.
prev_sel(btype) == selected_schemas

\* The keys whose checkbox is drawn ticked (value = key in prev_sel), in the
\* order of all_schemas; it is the list "selected" of a run in which the
\* user touches no checkbox.
PreSelected(btype) ==
    SelectSeq(all_schemas(btype),
              LAMBDA key : \E i \in DOMAIN prev_sel(btype) : prev_sel(btype)[i] = key)

\* C29: on first arrival at step 2 of a session in which no schema has been
\* selected before, the checkboxes are drawn ticked for the default list of
\* the current business type, so that "Next: Customize" (disabled while
\* nothing is ticked) is enabled without the user ticking anything.
C29_DefaultsPreSelected ==
    (step = 2 /\ selected_schemas = <<>>) =>
        /\ PreSelected(business_type) =
               SelectSeq(all_schemas(business_type),
                         LAMBDA key : \E i \in DOMAIN defaults_by_type(business_type) :
                                          defaults_by_type(business_type)[i] = key)
        /\ PreSelected(business_type) # <<>>

\* C30: normalize_url is idempotent, normalize_url(normalize_url(u)) =
\* normalize_url(u) for every string u, so that build_id applied to a
\* normalized URL and a fragment f is that URL followed by "/#" and f.
C30_NormalizeUrlIdempotent ==
    normalized # Unset =>
        /\ normalize_url(normalized) = normalized
        /\ build_id(normalized, fragment) =
               Str(normalized.s \o S("/#") \o fragment)

====
